---- MODULE Spec2Model ----
(***************************************************************************)
(* Repository-analysis pipeline of the Repo Guardian backend:              *)
(*   analyzer.ts            analyzeRepository (orchestrator)               *)
(*   dependency-analyzer.ts analyzeDependencies                            *)
(*   static-analyzer.ts     runStaticAnalysis                              *)
(*   ai-mock.ts             generateAISummary / generateMockSummary        *)
(* Strings are TLA+ strings; Len, SubSeq and \o act on them character by   *)
(* character.  A thrown JavaScript exception is the record                 *)
(* [threw |-> TRUE, error |-> <name>]; a normal return is                  *)
(* [threw |-> FALSE, value |-> <value>].                                   *)
(***************************************************************************)
EXTENDS Integers, Sequences, FiniteSets, TLC

VARIABLES
  dependencies,    \* summarizer input: DependencyAnalysis
  staticAnalysis,  \* summarizer input: StaticAnalysisResult
  credential,      \* process.env.OPENROUTER_API_KEY is set
  llmOutcome,      \* what the LLM endpoint answered in the last call
  llmCalls,        \* number of axios.post calls made by generateAISummary
  aiResult,        \* outcome of the last generateAISummary call
  phase,           \* "building" | "summarized"
  fs,              \* temp/<name> for every repository name: the directory there
  pc,              \* per run of analyzeRepository: the await it stands at
  ref,             \* per run: the repoUrl argument
  frame,           \* per run: stage reached, locals, collaborators invoked
  runResult,       \* per run: the report returned or the error raised
  workTree,        \* a repository tree on disk, handed to the two analyzers
  analyzedAs,      \* the language argument of the last analyzer calls
  depsResult,      \* outcome of analyzeDependencies(workTree, analyzedAs)
  staticResult,    \* outcome of runStaticAnalysis(workTree, analyzedAs)
  detected,        \* outcome of detectLanguage(workTree)
  archive,         \* the entries of a repository: a ZIP archive or a cloned tree
  zipFiles,        \* the files POST /zip extracted from the archive
  walkFiles,       \* the files readRepositoryFiles collected from the clone
  repoClone,       \* the directory POST /github cloned: made, and still there
  rows,            \* rows in repositories, repo_files and text_chunks
  zipResponse,     \* the response of POST /zip
  githubResponse   \* the response of POST /github

sumVars == <<dependencies, staticAnalysis, credential, llmOutcome, llmCalls,
             aiResult, phase>>

runVars == <<fs, pc, ref, frame, runResult>>

treeVars == <<workTree, analyzedAs, depsResult, staticResult, detected>>

ingestVars == <<archive, zipFiles, walkFiles, repoClone, rows, zipResponse,
                githubResponse>>

vars == <<sumVars, runVars, treeVars, ingestVars>>

----------------------------------------------------------------------------
(* Bounds *)

MaxItems == 6     \* vulnerable + outdated + findings in one fallback input
MaxAIItems == 2   \* the same, for inputs handed to generateAISummary
MaxRuns == 2      \* calls of analyzeRepository that may overlap
MaxTreeItems == 3 \* manifest entries + requirement lines + files of a tree
MaxEntries == 2   \* entries of an archive or cloned tree

----------------------------------------------------------------------------
(* JavaScript values and strings *)

Undefined == [t |-> "undefined"]
Null == [t |-> "null"]
JsString(s) == [t |-> "string", v |-> s]
JsArray(a) == [t |-> "array", v |-> a]

Returned(v) == [threw |-> FALSE, value |-> v]
Thrown(e) == [threw |-> TRUE, error |-> e]

\* ToBoolean of a JavaScript value
Truthy(x) ==
  CASE x.t = "undefined" -> FALSE
    [] x.t = "null" -> FALSE
    [] x.t = "string" -> x.v # ""
    [] x.t = "array" -> TRUE

\* String.prototype.includes, character by character
StringIncludes(s, needle) ==
  \E i \in 1..(Len(s) - Len(needle) + 1) : SubSeq(s, i, i + Len(needle) - 1) = needle

UpperCase == "ABCDEFGHIJKLMNOPQRSTUVWXYZ"
LowerCase == "abcdefghijklmnopqrstuvwxyz"

LowerChar(c) ==
  IF \E i \in 1..26 : SubSeq(UpperCase, i, i) = c
    THEN LET i == CHOOSE j \in 1..26 : SubSeq(UpperCase, j, j) = c
         IN SubSeq(LowerCase, i, i)
    ELSE c

RECURSIVE StringToLowerCase(_)
\* String.prototype.toLowerCase, character by character
StringToLowerCase(s) ==
  IF s = "" THEN ""
  ELSE LowerChar(SubSeq(s, 1, 1)) \o StringToLowerCase(SubSeq(s, 2, Len(s)))

Range(a) == {a[i] : i \in 1..Len(a)}

\* Array.prototype.slice(0, n)
Slice(a, n) == SubSeq(a, 1, IF Len(a) < n THEN Len(a) ELSE n)

\* Array.prototype.filter(x => x.field === value).length
Count(a, field, value) == Len(SelectSeq(a, LAMBDA x : x[field] = value))

----------------------------------------------------------------------------
(* Findings and dependency records the analyzers can hand to the summarizer *)

VulnCatalogue ==
  {[name |-> "log4js", version |-> "1.0.0",
    vulnerability |-> "Remote Code Execution", severity |-> "critical"],
   [name |-> "lodash", version |-> "4.17.4",
    vulnerability |-> "Prototype Pollution (CVE-2019-10744)", severity |-> "high"],
   [name |-> "express", version |-> "4.16.0",
    vulnerability |-> "Open Redirect (CVE-2022-24999)", severity |-> "medium"]}

OutdatedCatalogue ==
  {[name |-> "react", current |-> "16.8.0", latest |-> "18.2.0", severity |-> "high"],
   [name |-> "express", current |-> "4.16.0", latest |-> "4.18.2", severity |-> "medium"],
   [name |-> "lodash", current |-> "4.17.4", latest |-> "4.17.21", severity |-> "low"]}

FindingCatalogue ==
  {[file |-> "server.js", line |-> 15,
    message |-> "Potential SQL injection vulnerability",
    severity |-> "error", rule |-> JsString("security/detect-sql-injection")],
   [file |-> "server.js", line |-> 35,
    message |-> "Synchronous function in async context may block event loop",
    severity |-> "warning", rule |-> JsString("performance/no-sync-in-async")],
   [file |-> "utils.js", line |-> 3,
    message |-> "Console.log should be removed in production code",
    severity |-> "warning", rule |-> JsString("no-console")],
   [file |-> "app.py", line |-> 7,
    message |-> "Function missing docstring",
    severity |-> "info", rule |-> JsString("missing-docstring")],
   [file |-> "utils.js", line |-> 14,
    message |-> "Use of eval() is dangerous",
    severity |-> "error", rule |-> Undefined]}

\* The strings and needles of ai-mock.ts, with their results computed once
AnalyzerMessages ==
  {"Potential SQL injection vulnerability", "Hardcoded credentials detected",
   "Use of eval() is dangerous and should be avoided",
   "Synchronous function in async context may block event loop",
   "Console.log should be removed in production code",
   "JSON.parse should be wrapped in try-catch",
   "Use of eval() or exec() is dangerous", "Hardcoded secret detected",
   "Bare except clause should specify exception type",
   "Line too long (>100 characters)", "Function missing docstring"}
AnalyzerRules ==
  {"security/detect-sql-injection", "security/detect-hardcoded-credentials",
   "security/detect-eval-with-expression", "performance/no-sync-in-async",
   "no-console", "error-handling/json-parse", "no-unused-vars",
   "security/sql-injection", "security/eval-exec", "security/hardcoded-secret",
   "bare-except", "line-too-long", "missing-docstring"}
KnownMessages == AnalyzerMessages \cup {f.message : f \in FindingCatalogue}
KnownRules ==
  AnalyzerRules \cup {f.rule.v : f \in {g \in FindingCatalogue : g.rule.t = "string"}}
Needles == {"security", "performance", "sync", "injection", "eval"}

LoweredMessages == [m \in KnownMessages |-> StringToLowerCase(m)]

toLowerCase(s) ==
  IF s \in DOMAIN LoweredMessages THEN LoweredMessages[s] ELSE StringToLowerCase(s)

KnownHaystacks == KnownRules \cup {LoweredMessages[m] : m \in KnownMessages}

IncludesTable == [h \in KnownHaystacks, n \in Needles |-> StringIncludes(h, n)]

Includes(s, needle) ==
  IF <<s, needle>> \in DOMAIN IncludesTable
    THEN IncludesTable[s, needle]
    ELSE StringIncludes(s, needle)

----------------------------------------------------------------------------
(* ai-mock.ts: the deterministic fallback summary *)

\* e.rule?.includes(needle): undefined when the finding has no rule
RuleIncludes(e, needle) ==
  IF e.rule.t = "undefined" THEN Returned(FALSE)
  ELSE Returned(Includes(e.rule.v, needle))

\* e.message.toLowerCase().includes(needle)
MessageIncludes(e, needle) == Includes(toLowerCase(e.message), needle)

IsSecurityError(e) ==
  RuleIncludes(e, "security").value \/ MessageIncludes(e, "security")

IsPerformanceIssue(e) ==
  RuleIncludes(e, "performance").value \/ MessageIncludes(e, "sync")

IsCriticalError(e) ==
  e.severity = "error"
  /\ (RuleIncludes(e, "security").value \/ MessageIncludes(e, "injection")
      \/ MessageIncludes(e, "eval"))

\* some e.rule access of the filter callbacks raises a TypeError
RuleAccessThrows(errors) ==
  \E i \in 1..Len(errors) : RuleIncludes(errors[i], "security").threw

Plural(n, one, many) == IF n = 1 THEN one ELSE many

generateSummaryText(deps, sa, riskLevel) ==
  LET totalVulns == Len(deps.vulnerable)
      totalOutdated == Len(deps.outdated)
      totalErrors == sa.summary.totalErrors
      totalWarnings == sa.summary.totalWarnings
      s0 == "This repository has been classified as " \o riskLevel \o " risk. "
      s1 == IF totalVulns > 0
              THEN s0 \o "Found " \o ToString(totalVulns) \o " vulnerable "
                   \o Plural(totalVulns, "dependency", "dependencies")
                   \o " with known security issues. "
              ELSE s0
      s2 == IF totalOutdated > 0
              THEN s1 \o ToString(totalOutdated) \o " "
                   \o Plural(totalOutdated, "dependency is", "dependencies are")
                   \o " outdated. "
              ELSE s1
      s3 == IF totalErrors > 0
              THEN s2 \o "Static analysis detected " \o ToString(totalErrors)
                   \o " critical " \o Plural(totalErrors, "issue", "issues") \o " "
                   \o (IF totalWarnings > 0
                         THEN "and " \o ToString(totalWarnings) \o " "
                              \o Plural(totalWarnings, "warning", "warnings") \o ". "
                         ELSE ". ")
              ELSE IF totalWarnings > 0
                THEN s2 \o "Static analysis found " \o ToString(totalWarnings) \o " "
                     \o Plural(totalWarnings, "warning", "warnings") \o ". "
                ELSE s2
  IN s3 \o (CASE riskLevel = "critical" ->
                   "Immediate action is required to address critical security vulnerabilities."
              [] riskLevel = "high" ->
                   "High priority issues should be addressed as soon as possible."
              [] riskLevel = "medium" ->
                   "Several issues should be addressed to improve security and code quality."
              [] OTHER ->
                   "The repository appears to be in good condition with only minor issues.")

RecVulnerable == <<"Update vulnerable dependencies to secure versions immediately",
                   "Set up automated dependency scanning in your CI/CD pipeline">>
RecOutdated == <<"Update outdated dependencies to latest stable versions",
                 "Consider using dependency management tools like Dependabot or Renovate">>
RecSecurity == <<"Fix security vulnerabilities found in static analysis",
                 "Implement input validation and sanitization",
                 "Add security linting rules to prevent future issues">>
RecPerformance == <<"Replace synchronous operations with asynchronous alternatives",
                    "Implement proper error handling for async operations">>
RecLinting == <<"Set up code linting and formatting tools (ESLint, Prettier, etc.)",
                "Establish code review processes to catch issues early">>
RecGeneric == <<"Continue following security best practices",
                "Keep dependencies updated regularly",
                "Maintain good code quality standards">>

MaxRecommendations == 6
MaxPriorityFixes == 5

\* generateRecommendations that returns slice(0, 5)
generateRecommendations_capFive(deps, sa) ==
  IF RuleAccessThrows(sa.errors) THEN Thrown("TypeError")
  ELSE
    LET r1 == IF Len(deps.vulnerable) > 0 THEN RecVulnerable ELSE <<>>
        r2 == IF Len(deps.outdated) > 0 THEN RecOutdated ELSE <<>>
        r3 == IF Len(SelectSeq(sa.errors, IsSecurityError)) > 0 THEN RecSecurity ELSE <<>>
        r4 == IF Len(SelectSeq(sa.errors, IsPerformanceIssue)) > 0 THEN RecPerformance ELSE <<>>
        r5 == IF sa.summary.totalWarnings > 5 THEN RecLinting ELSE <<>>
        specific == r1 \o r2 \o r3 \o r4 \o r5
        all == IF Len(specific) = 0 THEN RecGeneric ELSE specific
    IN Returned(Slice(all, 5))

\* lines 228-279
generateRecommendations(deps, sa) ==
  IF RuleAccessThrows(sa.errors) THEN Thrown("TypeError")
  ELSE
    LET r1 == IF Len(deps.vulnerable) > 0 THEN RecVulnerable ELSE <<>>
        r2 == IF Len(deps.outdated) > 0 THEN RecOutdated ELSE <<>>
        r3 == IF Len(SelectSeq(sa.errors, IsSecurityError)) > 0 THEN RecSecurity ELSE <<>>
        r4 == IF Len(SelectSeq(sa.errors, IsPerformanceIssue)) > 0 THEN RecPerformance ELSE <<>>
        r5 == IF sa.summary.totalWarnings > 5 THEN RecLinting ELSE <<>>
        specific == r1 \o r2 \o r3 \o r4 \o r5
        all == IF Len(specific) = 0 THEN RecGeneric ELSE specific
    IN Returned(Slice(all, MaxRecommendations))

VulnFix(v) == "Update " \o v.name \o " to fix: " \o v.vulnerability
ErrorFix(e) ==
  "Fix " \o toLowerCase(e.message) \o " in " \o e.file \o ":" \o ToString(e.line)
OutdatedFix(d) == "Update " \o d.name \o " from " \o d.current \o " to " \o d.latest


\* generatePriorityFixes without the final slice(0, 5)
generatePriorityFixes_noLimit(deps, sa) ==
  IF RuleAccessThrows(sa.errors) THEN Thrown("TypeError")
  ELSE
    LET criticalVulns == SelectSeq(deps.vulnerable, LAMBDA v : v.severity = "critical")
        highVulns == SelectSeq(deps.vulnerable, LAMBDA v : v.severity = "high")
        criticalErrors == SelectSeq(sa.errors, IsCriticalError)
        highOutdated == SelectSeq(deps.outdated, LAMBDA d : d.severity = "high")
    IN Returned([i \in 1..Len(criticalVulns) |-> VulnFix(criticalVulns[i])]
                \o [i \in 1..Len(highVulns) |-> VulnFix(highVulns[i])]
                \o [i \in 1..Len(criticalErrors) |-> ErrorFix(criticalErrors[i])]
                \o [i \in 1..Len(highOutdated) |-> OutdatedFix(highOutdated[i])])

\* generatePriorityFixes that collects the outdated dependencies before the
\* static findings
generatePriorityFixes_outdatedBeforeErrors(deps, sa) ==
  IF RuleAccessThrows(sa.errors) THEN Thrown("TypeError")
  ELSE
    LET criticalVulns == SelectSeq(deps.vulnerable, LAMBDA v : v.severity = "critical")
        highVulns == SelectSeq(deps.vulnerable, LAMBDA v : v.severity = "high")
        criticalErrors == SelectSeq(sa.errors, IsCriticalError)
        highOutdated == SelectSeq(deps.outdated, LAMBDA d : d.severity = "high")
        all == [i \in 1..Len(criticalVulns) |-> VulnFix(criticalVulns[i])]
               \o [i \in 1..Len(highVulns) |-> VulnFix(highVulns[i])]
               \o [i \in 1..Len(highOutdated) |-> OutdatedFix(highOutdated[i])]
               \o [i \in 1..Len(criticalErrors) |-> ErrorFix(criticalErrors[i])]
    IN Returned(Slice(all, MaxPriorityFixes))

\* lines 284-322
generatePriorityFixes(deps, sa) ==
  IF RuleAccessThrows(sa.errors) THEN Thrown("TypeError")
  ELSE
    LET criticalVulns == SelectSeq(deps.vulnerable, LAMBDA v : v.severity = "critical")
        highVulns == SelectSeq(deps.vulnerable, LAMBDA v : v.severity = "high")
        criticalErrors == SelectSeq(sa.errors, IsCriticalError)
        highOutdated == SelectSeq(deps.outdated, LAMBDA d : d.severity = "high")
        all == [i \in 1..Len(criticalVulns) |-> VulnFix(criticalVulns[i])]
               \o [i \in 1..Len(highVulns) |-> VulnFix(highVulns[i])]
               \o [i \in 1..Len(criticalErrors) |-> ErrorFix(criticalErrors[i])]
               \o [i \in 1..Len(highOutdated) |-> OutdatedFix(highOutdated[i])]
    IN Returned(Slice(all, MaxPriorityFixes))


\* MockRiskLevel with "highIssues >= 2" for "highIssues > 2"
MockRiskLevel_highAtTwo(deps, sa) ==
  LET criticalIssues == Count(deps.vulnerable, "severity", "critical")
      highIssues == Count(deps.vulnerable, "severity", "high")
                    + Count(sa.errors, "severity", "error")
      mediumIssues == Count(deps.outdated, "severity", "medium")
                      + Count(sa.errors, "severity", "warning")
  IN IF criticalIssues > 0 THEN "critical"
     ELSE IF highIssues >= 2 THEN "high"
     ELSE IF highIssues > 0 \/ mediumIssues > 3 THEN "medium"
     ELSE "low"

\* MockRiskLevel with the test of highIssues placed before the test of
\* criticalIssues
MockRiskLevel_highFirst(deps, sa) ==
  LET criticalIssues == Count(deps.vulnerable, "severity", "critical")
      highIssues == Count(deps.vulnerable, "severity", "high")
                    + Count(sa.errors, "severity", "error")
      mediumIssues == Count(deps.outdated, "severity", "medium")
                      + Count(sa.errors, "severity", "warning")
  IN IF highIssues > 2 THEN "high"
     ELSE IF criticalIssues > 0 THEN "critical"
     ELSE IF highIssues > 0 \/ mediumIssues > 3 THEN "medium"
     ELSE "low"

\* lines 149-159 of generateMockSummary
MockRiskLevel(deps, sa) ==
  LET criticalIssues == Count(deps.vulnerable, "severity", "critical")
      highIssues == Count(deps.vulnerable, "severity", "high")
                    + Count(sa.errors, "severity", "error")
      mediumIssues == Count(deps.outdated, "severity", "medium")
                      + Count(sa.errors, "severity", "warning")
  IN IF criticalIssues > 0 THEN "critical"
     ELSE IF highIssues > 2 THEN "high"
     ELSE IF highIssues > 0 \/ mediumIssues > 3 THEN "medium"
     ELSE "low"

generateMockSummary(deps, sa) ==
  LET riskLevel == MockRiskLevel(deps, sa)
      summary == generateSummaryText(deps, sa, riskLevel)
      recommendations == generateRecommendations(deps, sa)
      priorityFixes == generatePriorityFixes(deps, sa)
  IN IF recommendations.threw THEN recommendations
     ELSE IF priorityFixes.threw THEN priorityFixes
     ELSE Returned([riskLevel |-> riskLevel,
                    summary |-> summary,
                    recommendations |-> recommendations.value,
                    priorityFixes |-> priorityFixes.value])

----------------------------------------------------------------------------
(* ai-mock.ts: the model path *)

\* What the completion endpoint can do with one request.
\*   requestError   axios.post rejects (network, 4xx/5xx)
\*   timeout        axios.post rejects after 30 s
\*   missingChoices the body has no choices field
\*   emptyChoices   choices is [] (or the message has no content)
\*   content        choices[0].message.content is the reply
GoodRecommendations == <<"r1", "r2", "r3", "r4", "r5", "r6", "r7">>
GoodPriorityFixes == <<"p1", "p2", "p3", "p4", "p5", "p6">>

GoodObject == [riskLevel |-> JsString("high"),
               summary |-> JsString("Two issues need attention."),
               recommendations |-> JsArray(GoodRecommendations),
               priorityFixes |-> JsArray(GoodPriorityFixes)]

RequiredFields == {"riskLevel", "summary", "recommendations", "priorityFixes"}

\* the empty value of a field's type
EmptyValue(f) ==
  IF f \in {"riskLevel", "summary"} THEN JsString("") ELSE JsArray(<<>>)

ReplyObjects ==
  {GoodObject}
  \cup {[GoodObject EXCEPT ![f] = b] : f \in RequiredFields, b \in {Undefined, Null}}
  \cup {[GoodObject EXCEPT ![f] = EmptyValue(f)] : f \in RequiredFields}
  \cup {[GoodObject EXCEPT !.riskLevel = JsString("severe")],
        [GoodObject EXCEPT !.recommendations = JsString("rotate the keys")],
        [GoodObject EXCEPT !.priorityFixes = JsString("rotate the keys")]}

\* a reply text: empty, prose without braces, braces around text that is not
\* JSON, or braces around a JSON object
Replies ==
  {[kind |-> "empty"], [kind |-> "prose"], [kind |-> "malformed"]}
  \cup {[kind |-> "object", obj |-> o] : o \in ReplyObjects}

LLMOutcomes ==
  {[kind |-> "requestError"], [kind |-> "timeout"], [kind |-> "missingChoices"],
   [kind |-> "emptyChoices"]}
  \cup {[kind |-> "content", reply |-> r] : r \in Replies}

NoOutcome == [kind |-> "none"]

\* callGeminiAPI: response.data.choices[0]?.message?.content || ''
callGeminiAPI(outcome) ==
  CASE outcome.kind = "requestError" -> Thrown("AxiosError")
    [] outcome.kind = "timeout" -> Thrown("ECONNABORTED")
    [] outcome.kind = "missingChoices" -> Thrown("TypeError")
    [] outcome.kind = "emptyChoices" -> Returned([kind |-> "empty"])
    [] outcome.kind = "content" -> Returned(outcome.reply)

\* aiResponse.match(/\{[\s\S]*\}/)
JsonMatch(reply) == reply.kind \in {"malformed", "object"}

\* JSON.parse(jsonMatch[0])
JsonParse(reply) ==
  IF reply.kind = "object" THEN Returned(reply.obj) ELSE Thrown("SyntaxError")


\* ValidStructure without the test of priorityFixes
ValidStructure_noPriorityFixes(parsed) ==
  /\ Truthy(parsed.riskLevel)
  /\ Truthy(parsed.summary)
  /\ Truthy(parsed.recommendations)

\* line 121: all four fields are truthy
ValidStructure(parsed) ==
  /\ Truthy(parsed.riskLevel)
  /\ Truthy(parsed.summary)
  /\ Truthy(parsed.recommendations)
  /\ Truthy(parsed.priorityFixes)

\* ArrayPrefix without the slice
ArrayPrefix_noLimit(x, n) == IF x.t = "array" THEN x.v ELSE <<>>

\* Array.isArray(x) ? x.slice(0, n) : []
ArrayPrefix(x, n) == IF x.t = "array" THEN Slice(x.v, n) ELSE <<>>

parseAIResponse(reply, deps, sa) ==
  IF JsonMatch(reply)
    THEN LET parsed == JsonParse(reply)
         IN IF parsed.threw
              THEN generateMockSummary(deps, sa)          \* catch, line 135
              ELSE IF ValidStructure(parsed.value)
                THEN Returned(
                       [riskLevel |-> parsed.value.riskLevel.v,
                        summary |-> parsed.value.summary.v,
                        recommendations |->
                          ArrayPrefix(parsed.value.recommendations, MaxRecommendations),
                        priorityFixes |->
                          ArrayPrefix(parsed.value.priorityFixes, MaxPriorityFixes)])
                ELSE generateMockSummary(deps, sa)        \* line 133
    ELSE generateMockSummary(deps, sa)                    \* line 133

\* generateAISummary: [result, calls] where calls counts the requests sent
generateAISummary(hasKey, outcome, deps, sa) ==
  IF ~hasKey
    THEN [result |-> generateMockSummary(deps, sa), calls |-> 0]
    ELSE LET aiResponse == callGeminiAPI(outcome)
         IN [result |-> IF aiResponse.threw
                          THEN generateMockSummary(deps, sa)   \* catch, line 30
                          ELSE parseAIResponse(aiResponse.value, deps, sa),
             calls |-> 1]

----------------------------------------------------------------------------
(* Summarizer inputs *)

NoDependencies == [total |-> 0, outdated |-> <<>>, vulnerable |-> <<>>]
NoFindings ==
  [errors |-> <<>>, summary |-> [totalFiles |-> 0, totalErrors |-> 0, totalWarnings |-> 0]]

\* a DependencyAnalysis as the analyzers build it: total counts the names
MakeDependencies(outdated, vulnerable) ==
  [total |-> Cardinality({d.name : d \in Range(outdated)}
                         \cup {v.name : v \in Range(vulnerable)}),
   outdated |-> outdated,
   vulnerable |-> vulnerable]

\* a StaticAnalysisResult as the analyzers build it (static-analyzer.ts 136-146)
MakeStaticAnalysis(errors) ==
  [errors |-> errors,
   summary |-> [totalFiles |-> Cardinality({e.file : e \in Range(errors)}),
                totalErrors |-> Count(errors, "severity", "error"),
                totalWarnings |-> Count(errors, "severity", "warning")]]

ItemCount ==
  Len(dependencies.vulnerable) + Len(dependencies.outdated) + Len(staticAnalysis.errors)

NoResult == [threw |-> FALSE, value |-> "none"]

InitSummary ==
  /\ dependencies = NoDependencies
  /\ staticAnalysis = NoFindings
  /\ credential = FALSE
  /\ llmOutcome = NoOutcome
  /\ llmCalls = 0
  /\ aiResult = NoResult
  /\ phase = "building"

AddVulnerable(max) ==
  /\ phase = "building"
  /\ ItemCount < max
  /\ \E v \in VulnCatalogue :
       dependencies' =
         MakeDependencies(dependencies.outdated, Append(dependencies.vulnerable, v))
  /\ UNCHANGED <<staticAnalysis, credential, llmOutcome, llmCalls, aiResult, phase>>

AddOutdated(max) ==
  /\ phase = "building"
  /\ ItemCount < max
  /\ \E d \in OutdatedCatalogue :
       dependencies' =
         MakeDependencies(Append(dependencies.outdated, d), dependencies.vulnerable)
  /\ UNCHANGED <<staticAnalysis, credential, llmOutcome, llmCalls, aiResult, phase>>

AddFinding(max) ==
  /\ phase = "building"
  /\ ItemCount < max
  /\ \E f \in FindingCatalogue :
       staticAnalysis' = MakeStaticAnalysis(Append(staticAnalysis.errors, f))
  /\ UNCHANGED <<dependencies, credential, llmOutcome, llmCalls, aiResult, phase>>

\* a call of generateMockSummary(dependencies, staticAnalysis)
MockSummarize ==
  /\ phase = "building"
  /\ aiResult' = generateMockSummary(dependencies, staticAnalysis)
  /\ phase' = "summarized"
  /\ UNCHANGED <<dependencies, staticAnalysis, credential, llmOutcome, llmCalls>>

\* a call of generateAISummary(dependencies, staticAnalysis)
AISummarize ==
  /\ phase = "building"
  /\ \E hasKey \in BOOLEAN, outcome \in LLMOutcomes :
       LET Summarized(r) ==
             /\ credential' = hasKey
             /\ llmOutcome' = IF hasKey THEN outcome ELSE NoOutcome
             /\ llmCalls' = r.calls
             /\ aiResult' = r.result
       IN Summarized(generateAISummary(hasKey, outcome, dependencies, staticAnalysis))
  /\ phase' = "summarized"
  /\ UNCHANGED <<dependencies, staticAnalysis>>


----------------------------------------------------------------------------
(* More of String.prototype and RegExp, character by character *)

CharAt(s, i) == SubSeq(s, i, i)
\* p occurs in s at position i
OccursAt(s, i, p) == i + Len(p) - 1 <= Len(s) /\ SubSeq(s, i, i + Len(p) - 1) = p
StartsWith(s, p) == Len(s) >= Len(p) /\ SubSeq(s, 1, Len(p)) = p
EndsWith(s, p) == Len(s) >= Len(p) /\ SubSeq(s, Len(s) - Len(p) + 1, Len(s)) = p

\* c is one of the characters of the string set
InClass(c, set) == \E i \in 1..Len(set) : CharAt(set, i) = c

Digits == "0123456789"
WordChars == UpperCase \o LowerCase \o Digits \o "_"     \* \w
WhiteSpace == " \t\r\n"                                   \* \s, as far as it occurs

\* index after the longest run of characters of set that starts at i
RECURSIVE SpanEnd(_, _, _)
SpanEnd(s, i, set) ==
  IF i <= Len(s) /\ InClass(CharAt(s, i), set) THEN SpanEnd(s, i + 1, set) ELSE i

RECURSIVE TrimStart(_)
TrimStart(s) ==
  IF s # "" /\ InClass(CharAt(s, 1), WhiteSpace) THEN TrimStart(SubSeq(s, 2, Len(s))) ELSE s

RECURSIVE TrimEnd(_)
TrimEnd(s) ==
  IF s # "" /\ InClass(CharAt(s, Len(s)), WhiteSpace)
    THEN TrimEnd(SubSeq(s, 1, Len(s) - 1)) ELSE s

\* String.prototype.trim
Trim(s) == TrimEnd(TrimStart(s))

\* position of the last c in s, 0 when there is none
LastIndexOf(s, c) ==
  IF \E i \in 1..Len(s) : CharAt(s, i) = c
    THEN CHOOSE i \in 1..Len(s) :
           CharAt(s, i) = c /\ \A j \in (i + 1)..Len(s) : CharAt(s, j) # c
    ELSE 0

\* position of the first character of s that is in set, 0 when there is none
FirstIndexIn(s, set) ==
  IF \E i \in 1..Len(s) : InClass(CharAt(s, i), set)
    THEN CHOOSE i \in 1..Len(s) :
           InClass(CharAt(s, i), set) /\ \A j \in 1..(i - 1) : ~InClass(CharAt(s, j), set)
    ELSE 0

\* value of a string of decimal digits
RECURSIVE ParseDigits(_)
ParseDigits(s) ==
  IF s = "" THEN 0
  ELSE 10 * ParseDigits(SubSeq(s, 1, Len(s) - 1))
       + (CHOOSE d \in 0..9 : CharAt(Digits, d + 1) = CharAt(s, Len(s)))

----------------------------------------------------------------------------
(* The semver package, as far as dependency-analyzer.ts uses it *)

\* (0|[1-9]\d*)
IsNumericId(s) ==
  /\ s # ""
  /\ \A i \in 1..Len(s) : InClass(CharAt(s, i), Digits)
  /\ (Len(s) > 1 => CharAt(s, 1) # "0")

IdChars == UpperCase \o LowerCase \o Digits \o "-."

\* new SemVer(v): strict parse of [v]major.minor.patch[-prerelease][+build];
\* the result is Thrown("TypeError") for an invalid version
SemVer(version) ==
  LET Before(s, i) == IF i = 0 THEN s ELSE SubSeq(s, 1, i - 1)
      After(s, i) == IF i = 0 THEN "" ELSE SubSeq(s, i + 1, Len(s))
      Parsed(major, minor, patch, pre, build, wellFormed) ==
        IF /\ wellFormed
           /\ IsNumericId(major) /\ IsNumericId(minor) /\ IsNumericId(patch)
           /\ \A i \in 1..Len(pre) : InClass(CharAt(pre, i), IdChars)
           /\ \A i \in 1..Len(build) : InClass(CharAt(build, i), IdChars)
          THEN Returned([major |-> ParseDigits(major), minor |-> ParseDigits(minor),
                         patch |-> ParseDigits(patch), prerelease |-> pre])
          ELSE Thrown("TypeError")
      \* rest is what follows the first dot, d2 the place of the second dot
      AtSecondDot(major, rest, d2, pre, build, wellFormed) ==
        Parsed(major, Before(rest, d2), After(rest, d2), pre, build,
               wellFormed /\ d2 > 0)
      AtFirstDot(main, d1, pre, build, wellFormed) ==
        AtSecondDot(Before(main, d1), After(main, d1),
                    FirstIndexIn(After(main, d1), "."), pre, build,
                    wellFormed /\ d1 > 0)
      \* noBuild is the version without its +build, dash the place of its "-"
      AtDash(noBuild, dash, build, wellFormed) ==
        AtFirstDot(Before(noBuild, dash), FirstIndexIn(Before(noBuild, dash), "."),
                   After(noBuild, dash), build,
                   wellFormed /\ (dash > 0 => After(noBuild, dash) # ""))
      AtPlus(body, plus) ==
        AtDash(Before(body, plus), FirstIndexIn(Before(body, plus), "-"),
               After(body, plus), plus > 0 => After(body, plus) # "")
      Body(body) == AtPlus(body, FirstIndexIn(body, "+"))
      Trimmed(t) == Body(IF StartsWith(t, "v") THEN SubSeq(t, 2, Len(t)) ELSE t)
  IN Trimmed(Trim(version))

\* SemVer.compare(a, b) < 0 for parsed versions, b a release (no prerelease)
SemVerLess(a, b) ==
  \/ a.major < b.major
  \/ a.major = b.major /\ a.minor < b.minor
  \/ a.major = b.major /\ a.minor = b.minor /\ a.patch < b.patch
  \/ a.major = b.major /\ a.minor = b.minor /\ a.patch = b.patch
     /\ a.prerelease # "" /\ b.prerelease = ""

\* semver.lt(a, b)
semverLt(a, b) ==
  LET Compare(pa, pb) ==
        IF pa.threw THEN pa
        ELSE IF pb.threw THEN pb
        ELSE Returned(SemVerLess(pa.value, pb.value))
  IN Compare(SemVer(a), SemVer(b))

\* version.replace(/[\^~]/, ''): the first ^ or ~ is removed, wherever it is
StripRangePrefix(version) ==
  LET i == FirstIndexIn(version, "^~")
  IN IF i = 0 THEN version
     ELSE SubSeq(version, 1, i - 1) \o SubSeq(version, i + 1, Len(version))

----------------------------------------------------------------------------
(* A fetched repository tree *)

\* package.json: absent, not parseable as JSON, or an object whose
\* dependencies and devDependencies are lists of [name, version] in key order
NoPackageJson == [kind |-> "absent"]
BadPackageJson == [kind |-> "invalid"]
PackageJson(deps, devDeps) ==
  [kind |-> "json", dependencies |-> deps, devDependencies |-> devDeps]

\* requirements.txt: absent, or its lines (the text split at "\n")
NoRequirements == [kind |-> "absent"]
Requirements(lines) == [kind |-> "text", lines |-> lines]

\* a file of the tree: the directory segments below the root, the file name,
\* whether fs.stat / fs.readFile succeed on it, and its lines
SourceFile(dir, name, readable, lines) ==
  [dir |-> dir, name |-> name, readable |-> readable, lines |-> lines]

\* a tree: the other marker files of the root, the two manifests and the
\* remaining files in directory-walk order
Tree(markers, packageJson, requirements, files) ==
  [markers |-> markers, packageJson |-> packageJson,
   requirements |-> requirements, files |-> files]

\* fs.readdir(repoPath): the names in the root directory
RootEntries(tree) ==
  tree.markers
  \cup (IF tree.packageJson.kind = "absent" THEN {} ELSE {"package.json"})
  \cup (IF tree.requirements.kind = "absent" THEN {} ELSE {"requirements.txt"})
  \cup {f.name : f \in {g \in Range(tree.files) : g.dir = <<>>}}
  \cup {f.dir[1] : f \in {g \in Range(tree.files) : g.dir # <<>>}}

\* path.extname(name).toLowerCase()
ExtName(name) ==
  LET i == LastIndexOf(name, ".")
  IN IF i <= 1 THEN "" ELSE StringToLowerCase(SubSeq(name, i, Len(name)))

----------------------------------------------------------------------------
(* dependency-analyzer.ts *)

ZeroDependencies == [total |-> 0, outdated |-> <<>>, vulnerable |-> <<>>]

mockLatestVersions ==
  [express |-> "4.18.2", lodash |-> "4.17.21", axios |-> "1.5.0",
   react |-> "18.2.0", vue |-> "3.3.4", bcrypt |-> "5.1.0"]

mockVulnerabilities ==
  [lodash |-> [vulnerability |-> "Prototype Pollution (CVE-2019-10744)",
               severity |-> "high"],
   express |-> [vulnerability |-> "Open Redirect (CVE-2022-24999)",
                severity |-> "medium"],
   bcrypt |-> [vulnerability |-> "Timing Attack Vulnerability",
               severity |-> "medium"]]

\* SpreadMerge that keeps a key of both objects twice
SpreadMerge_keepsBoth(a, b) == a \o b

\* { ...a, ...b }: the keys of a in order, then the new keys of b; a key of
\* both keeps its place and takes the value of b
SpreadMerge(a, b) ==
  LET inB(n) == \E j \in 1..Len(b) : b[j].name = n
      valueInB(n) == b[CHOOSE j \in 1..Len(b) :
                         b[j].name = n /\ \A k \in (j + 1)..Len(b) : b[k].name # n]
      fromA == [i \in 1..Len(a) |-> IF inB(a[i].name) THEN valueInB(a[i].name) ELSE a[i]]
      newInB == SelectSeq(b, LAMBDA e : \A i \in 1..Len(a) : a[i].name # e.name)
  IN fromA \o newInB

\* OutdatedSeverity that rates every outdated package high
OutdatedSeverity_alwaysHigh(current, latest) == "high"

\* lines 76-77
OutdatedSeverity(current, latest) ==
  LET Severity(c, l) ==
        IF c.major < l.major THEN "high"
        ELSE IF c.minor < l.minor THEN "medium"
        ELSE "low"
  IN Severity(SemVer(current).value, SemVer(latest).value)

\* IsOutdated that reports every version other than the latest
IsOutdated_anyDifference(entry) ==
  IF entry.name \in DOMAIN mockLatestVersions
    THEN Returned(StripRangePrefix(entry.version) # mockLatestVersions[entry.name])
    ELSE Returned(FALSE)

\* the loop body's test at line 75 for one entry: latestVersion && semver.lt(..)
IsOutdated(entry) ==
  IF entry.name \in DOMAIN mockLatestVersions
    THEN semverLt(StripRangePrefix(entry.version), mockLatestVersions[entry.name])
    ELSE Returned(FALSE)

\* analyzeJavaScriptDependencies that looks up the vulnerabilities of the
\* outdated packages only
analyzeJavaScriptDependencies_vulnerableIfOutdated(tree) ==
  IF tree.packageJson.kind = "absent" THEN Returned(ZeroDependencies)
  ELSE IF tree.packageJson.kind = "invalid" THEN Thrown("SyntaxError")
  ELSE
    LET deps == SpreadMerge(tree.packageJson.dependencies,
                            tree.packageJson.devDependencies)
        outdatedEntries == SelectSeq(deps, LAMBDA e : IsOutdated(e).value)
        vulnerableEntries ==
          SelectSeq(outdatedEntries, LAMBDA e : e.name \in DOMAIN mockVulnerabilities)
    IN IF \E i \in 1..Len(deps) : IsOutdated(deps[i]).threw
         THEN Thrown("TypeError")
         ELSE Returned(
           [total |-> Len(deps),
            outdated |->
              [i \in 1..Len(outdatedEntries) |->
                 LET e == outdatedEntries[i]
                     current == StripRangePrefix(e.version)
                     latest == mockLatestVersions[e.name]
                 IN [name |-> e.name, current |-> current, latest |-> latest,
                     severity |-> OutdatedSeverity(current, latest)]],
            vulnerable |->
              [i \in 1..Len(vulnerableEntries) |->
                 LET e == vulnerableEntries[i]
                 IN [name |-> e.name, version |-> StripRangePrefix(e.version),
                     vulnerability |-> mockVulnerabilities[e.name].vulnerability,
                     severity |-> mockVulnerabilities[e.name].severity]]])

\* lines 43-116
analyzeJavaScriptDependencies(tree) ==
  IF tree.packageJson.kind = "absent" THEN Returned(ZeroDependencies)
  ELSE IF tree.packageJson.kind = "invalid" THEN Thrown("SyntaxError")   \* fs.readJson
  ELSE
    LET deps == SpreadMerge(tree.packageJson.dependencies,
                            tree.packageJson.devDependencies)
        outdatedEntries == SelectSeq(deps, LAMBDA e : IsOutdated(e).value)
        vulnerableEntries == SelectSeq(deps, LAMBDA e : e.name \in DOMAIN mockVulnerabilities)
    IN IF \E i \in 1..Len(deps) : IsOutdated(deps[i]).threw
         THEN Thrown("TypeError")                                         \* semver.lt
         ELSE Returned(
           [total |-> Len(deps),
            outdated |->
              [i \in 1..Len(outdatedEntries) |->
                 LET e == outdatedEntries[i]
                     current == StripRangePrefix(e.version)
                     latest == mockLatestVersions[e.name]
                 IN [name |-> e.name, current |-> current, latest |-> latest,
                     severity |-> OutdatedSeverity(current, latest)]],
            vulnerable |->
              [i \in 1..Len(vulnerableEntries) |->
                 LET e == vulnerableEntries[i]
                 IN [name |-> e.name, version |-> StripRangePrefix(e.version),
                     vulnerability |-> mockVulnerabilities[e.name].vulnerability,
                     severity |-> mockVulnerabilities[e.name].severity]]])

pythonLatestVersions ==
  [django |-> "4.2.5", flask |-> "2.3.3", requests |-> "2.31.0",
   numpy |-> "1.24.3", pandas |-> "2.0.3"]

pythonVulnerabilities ==
  [django |-> [vulnerability |-> "SQL Injection (CVE-2023-36053)", severity |-> "high"],
   requests |-> [vulnerability |-> "Certificate Verification Bypass",
                 severity |-> "medium"]]

RequirementNameChars == UpperCase \o LowerCase \o Digits \o "-_"
RequirementOperatorChars == ">=<~!"

\* line.match(/^([a-zA-Z0-9\-_]+)([>=<~!]+)?(.+)?$/): null, or name and version
\* ("." matches no line terminator, so a line holding "\r" does not match)
MatchRequirement(line) ==
  LET nameEnd == SpanEnd(line, 1, RequirementNameChars)
      opEnd == SpanEnd(line, nameEnd, RequirementOperatorChars)
      version == SubSeq(line, opEnd, Len(line))
  IN IF nameEnd = 1 \/ (\E i \in 1..Len(line) : InClass(CharAt(line, i), "\r\n"))
       THEN [matched |-> FALSE]
       ELSE [matched |-> TRUE,
             name |-> SubSeq(line, 1, nameEnd - 1),
             version |-> IF version = "" THEN "0.0.0" ELSE version]

analyzePythonDependencies(tree) ==
  IF tree.requirements.kind = "absent" THEN Returned(ZeroDependencies)
  ELSE
    LET lines == SelectSeq(tree.requirements.lines,
                           LAMBDA l : Trim(l) # "" /\ ~StartsWith(l, "#"))
        parsed == SelectSeq([i \in 1..Len(lines) |-> MatchRequirement(lines[i])],
                            LAMBDA m : m.matched)
        outdatedEntries ==
          SelectSeq(parsed, LAMBDA m : /\ m.name \in DOMAIN pythonLatestVersions
                                       /\ m.version # pythonLatestVersions[m.name])
        vulnerableEntries ==
          SelectSeq(parsed, LAMBDA m : m.name \in DOMAIN pythonVulnerabilities)
    IN Returned(
         [total |-> Len(lines),
          outdated |->
            [i \in 1..Len(outdatedEntries) |->
               [name |-> outdatedEntries[i].name,
                current |-> outdatedEntries[i].version,
                latest |-> pythonLatestVersions[outdatedEntries[i].name],
                severity |-> "medium"]],
          vulnerable |->
            [i \in 1..Len(vulnerableEntries) |->
               [name |-> vulnerableEntries[i].name,
                version |-> vulnerableEntries[i].version,
                vulnerability |->
                  pythonVulnerabilities[vulnerableEntries[i].name].vulnerability,
                severity |-> pythonVulnerabilities[vulnerableEntries[i].name].severity]]])

\* analyzeDependencies that treats every language but python as javascript
analyzeDependencies_defaultsToJavaScript(tree, language) ==
  CASE language = "python" -> analyzePythonDependencies(tree)
    [] OTHER -> analyzeJavaScriptDependencies(tree)

analyzeDependencies(tree, language) ==
  CASE language = "javascript" -> analyzeJavaScriptDependencies(tree)
    [] language = "python" -> analyzePythonDependencies(tree)
    [] OTHER -> Returned(ZeroDependencies)

----------------------------------------------------------------------------
(* static-analyzer.ts *)

ZeroStaticAnalysis ==
  [errors |-> <<>>, summary |-> [totalFiles |-> 0, totalErrors |-> 0, totalWarnings |-> 0]]

\* Finding with the zero-based index of the line for its number
Finding_zeroBasedLine(file, line, message, severity, rule) ==
  [file |-> file, line |-> line - 1, message |-> message, severity |-> severity,
   rule |-> JsString(rule)]

Finding(file, line, message, severity, rule) ==
  [file |-> file, line |-> line, message |-> message, severity |-> severity,
   rule |-> JsString(rule)]

RECURSIVE JoinPath(_)
\* the segments joined with "/"
JoinPath(segments) ==
  IF Len(segments) = 1 THEN segments[1]
  ELSE segments[1] \o "/" \o JoinPath(Tail(segments))

\* path.relative(repoPath, filePath)
RelativePath(file) == JoinPath(file.dir \o <<file.name>>)

RECURSIVE Flatten(_)
\* concatenation of a list of lists
Flatten(lists) == IF lists = <<>> THEN <<>> ELSE Head(lists) \o Flatten(Tail(lists))

\* content.includes(needle) for a needle without "\n"
ContentIncludes(lines, needle) ==
  \E i \in 1..Len(lines) : StringIncludes(lines[i], needle)

StaticSkippedDirs == {"node_modules", ".git", "dist", "build", "__pycache__"}

\* findFiles(dirPath, extensions): every entry of a directory that is walked is
\* stat'ed; the files with one of the extensions are collected
findFiles(tree, extensions) ==
  LET walked == SelectSeq(tree.files,
                          LAMBDA f : \A i \in 1..Len(f.dir) : f.dir[i] \notin StaticSkippedDirs)
  IN IF \E i \in 1..Len(walked) : ~walked[i].readable
       THEN Thrown("ENOENT")
       ELSE Returned(SelectSeq(walked, LAMBDA f : ExtName(f.name) \in extensions))

VarKeywords == <<"var", "let", "const">>

\* /(?:var|let|const)\s+(\w+)/ tried at position i: the end of the name, 0 if
\* there is no match at i
VarMatchEndAt(s, i) ==
  IF \E k \in 1..3 : OccursAt(s, i, VarKeywords[k])
    THEN LET k == CHOOSE j \in 1..3 : OccursAt(s, i, VarKeywords[j])
             afterKeyword == i + Len(VarKeywords[k])
             nameStart == SpanEnd(s, afterKeyword, WhiteSpace)
             nameEnd == SpanEnd(s, nameStart, WordChars)
         IN IF nameStart > afterKeyword /\ nameEnd > nameStart THEN nameEnd ELSE 0
    ELSE 0

VarNameStartAt(s, i) ==
  LET k == CHOOSE j \in 1..3 : OccursAt(s, i, VarKeywords[j])
  IN SpanEnd(s, i + Len(VarKeywords[k]), WhiteSpace)

\* trimmedLine.match(/(?:var|let|const)\s+(\w+)/): the leftmost match
VarMatch(s) ==
  IF \E i \in 1..Len(s) : VarMatchEndAt(s, i) > 0
    THEN LET i == CHOOSE j \in 1..Len(s) :
                    VarMatchEndAt(s, j) > 0 /\ \A k \in 1..(j - 1) : VarMatchEndAt(s, k) = 0
         IN [matched |-> TRUE,
             name |-> SubSeq(s, VarNameStartAt(s, i), VarMatchEndAt(s, i) - 1)]
    ELSE [matched |-> FALSE]

When(cond, finding) == IF cond THEN <<finding>> ELSE <<>>

\* the callback of lines.forEach in analyzeJavaScript (lines 50-133)
JavaScriptLineFindings(relativePath, lines, index) ==
  LET lineNumber == index
      trimmedLine == Trim(lines[index])
      has(x) == StringIncludes(trimmedLine, x)
      varMatch == VarMatch(trimmedLine)
  IN When(has("query") /\ has("+") /\ has("SELECT"),
          Finding(relativePath, lineNumber, "Potential SQL injection vulnerability",
                  "error", "security/detect-sql-injection"))
     \o When(has("password") /\ (has("=") \/ has(":")) /\ (has("\"") \/ has("'")),
             Finding(relativePath, lineNumber, "Hardcoded credentials detected",
                     "error", "security/detect-hardcoded-credentials"))
     \o When(has("eval("),
             Finding(relativePath, lineNumber,
                     "Use of eval() is dangerous and should be avoided",
                     "error", "security/detect-eval-with-expression"))
     \o When(has("Sync(") /\ ~has("//"),
             Finding(relativePath, lineNumber,
                     "Synchronous function in async context may block event loop",
                     "warning", "performance/no-sync-in-async"))
     \o When(has("console.log(") /\ ~has("//"),
             Finding(relativePath, lineNumber,
                     "Console.log should be removed in production code",
                     "warning", "no-console"))
     \o When(has("JSON.parse(") /\ ~ContentIncludes(lines, "try")
               /\ ~ContentIncludes(lines, "catch"),
             Finding(relativePath, lineNumber,
                     "JSON.parse should be wrapped in try-catch",
                     "warning", "error-handling/json-parse"))
     \o (IF varMatch.matched
         THEN When(~ContentIncludes(lines, varMatch.name \o ".")
                     /\ ~ContentIncludes(lines, varMatch.name \o "("),
                   Finding(relativePath, lineNumber,
                           "Variable '" \o varMatch.name \o "' is declared but never used",
                           "warning", "no-unused-vars"))
         ELSE <<>>)

\* the callback of lines.forEach in analyzePython (lines 162-233)
PythonLineFindings(relativePath, lines, index) ==
  LET lineNumber == index
      line == lines[index]
      trimmedLine == Trim(line)
      has(x) == StringIncludes(trimmedLine, x)
  IN When(has("execute(") /\ has("%") /\ has("SELECT"),
          Finding(relativePath, lineNumber, "Potential SQL injection vulnerability",
                  "error", "security/sql-injection"))
     \o When(has("eval(") \/ has("exec("),
             Finding(relativePath, lineNumber, "Use of eval() or exec() is dangerous",
                     "error", "security/eval-exec"))
     \o When((has("password") \/ has("secret"))
               /\ has("=") /\ (has("\"") \/ has("'")),
             Finding(relativePath, lineNumber, "Hardcoded secret detected",
                     "error", "security/hardcoded-secret"))
     \o When(trimmedLine = "except:",
             Finding(relativePath, lineNumber,
                     "Bare except clause should specify exception type",
                     "warning", "bare-except"))
     \o When(Len(line) > 100,
             Finding(relativePath, lineNumber, "Line too long (>100 characters)",
                     "warning", "line-too-long"))
     \o When(StartsWith(trimmedLine, "def ")
               /\ ~(index < Len(lines) /\ StartsWith(Trim(lines[index + 1]), "\"\"\"")),
             Finding(relativePath, lineNumber, "Function missing docstring",
                     "info", "missing-docstring"))

\* ScanFiles with totalWarnings counting every finding that is not an error
ScanFiles_warningsCountInfo(files, language) ==
  LET LineFindings(relativePath, lines, l) ==
        IF language = "python" THEN PythonLineFindings(relativePath, lines, l)
        ELSE JavaScriptLineFindings(relativePath, lines, l)
      Summarize(errors) ==
        [errors |-> errors,
         summary |-> [totalFiles |-> Len(files),
                      totalErrors |-> Count(errors, "severity", "error"),
                      totalWarnings |->
                        Len(errors) - Count(errors, "severity", "error")]]
  IN Summarize(
       Flatten([i \in 1..Len(files) |->
                  Flatten([l \in 1..Len(files[i].lines) |->
                             LineFindings(RelativePath(files[i]), files[i].lines, l)])]))

\* the findings of all files, file by file and line by line, and the summary
\* (lines 136-146 and 236-246)
ScanFiles(files, language) ==
  LET LineFindings(relativePath, lines, l) ==
        IF language = "python" THEN PythonLineFindings(relativePath, lines, l)
        ELSE JavaScriptLineFindings(relativePath, lines, l)
      errors ==
        Flatten([i \in 1..Len(files) |->
                   Flatten([l \in 1..Len(files[i].lines) |->
                              LineFindings(RelativePath(files[i]), files[i].lines, l)])])
  IN [errors |-> errors,
      summary |-> [totalFiles |-> Len(files),
                   totalErrors |-> Count(errors, "severity", "error"),
                   totalWarnings |-> Count(errors, "severity", "warning")]]

JavaScriptExtensions == {".js", ".jsx", ".ts", ".tsx"}
PythonExtensions == {".py"}

analyzeJavaScript(tree) ==
  LET jsFiles == findFiles(tree, JavaScriptExtensions)
  IN IF jsFiles.threw THEN jsFiles
     ELSE Returned(ScanFiles(jsFiles.value, "javascript"))

analyzePython(tree) ==
  LET pyFiles == findFiles(tree, PythonExtensions)
  IN IF pyFiles.threw THEN pyFiles
     ELSE Returned(ScanFiles(pyFiles.value, "python"))

\* runStaticAnalysis whose default branch rejects an unsupported language
runStaticAnalysis_defaultThrows(tree, language) ==
  CASE language = "javascript" -> analyzeJavaScript(tree)
    [] language = "python" -> analyzePython(tree)
    [] OTHER -> Thrown("UnsupportedLanguage")

\* lines 22-34: the switch on the detected language
runStaticAnalysis(tree, language) ==
  CASE language = "javascript" -> analyzeJavaScript(tree)
    [] language = "python" -> analyzePython(tree)
    [] OTHER -> Returned(ZeroStaticAnalysis)

----------------------------------------------------------------------------
(* analyzer.ts: language detection *)

\* getAllFiles(dirPath): directories starting with "." and node_modules are
\* not entered; every other entry is stat'ed
getAllFiles(tree) ==
  LET walked == SelectSeq(tree.files,
                          LAMBDA f : \A i \in 1..Len(f.dir) :
                                       /\ ~StartsWith(f.dir[i], ".")
                                       /\ f.dir[i] # "node_modules")
  IN IF \E i \in 1..Len(walked) : ~walked[i].readable
       THEN Thrown("ENOENT")
       ELSE Returned(walked)

detectLanguage(tree) ==
  LET files == RootEntries(tree)
      allFiles == getAllFiles(tree)
      extensions == {ExtName(f.name) : f \in Range(allFiles.value)}
  IN IF "package.json" \in files THEN Returned("javascript")
     ELSE IF "requirements.txt" \in files \/ "setup.py" \in files THEN Returned("python")
     ELSE IF "Cargo.toml" \in files THEN Returned("rust")
     ELSE IF "go.mod" \in files THEN Returned("go")
     ELSE IF "pom.xml" \in files \/ "build.gradle" \in files THEN Returned("java")
     ELSE IF allFiles.threw THEN allFiles
     ELSE IF extensions \cap {".js", ".jsx", ".ts", ".tsx"} # {} THEN Returned("javascript")
     ELSE IF ".py" \in extensions THEN Returned("python")
     ELSE IF ".java" \in extensions THEN Returned("java")
     ELSE IF ".rs" \in extensions THEN Returned("rust")
     ELSE IF ".go" \in extensions THEN Returned("go")
     ELSE Returned("unknown")

----------------------------------------------------------------------------
(* analyzer.ts: analyzeRepository *)

Runs == 1..MaxRuns

\* the references a caller passes
Refs == {"demo", "git.io/u/demo-app.git", "git.io/u/app.git", "git.io/v/app/"}

\* extractRepoName(repoUrl), lines 130-135
extractRepoName(repoUrl) ==
  IF StringIncludes(repoUrl, "demo") THEN "demo-repo"
  ELSE
    LET slash == LastIndexOf(repoUrl, "/")
        last == SubSeq(repoUrl, slash + 1, Len(repoUrl))
        \* /\/([^\/]+)\.git$/
        gitMatch == slash > 0 /\ Len(last) > 4 /\ EndsWith(last, ".git")
        \* /\/([^\/]+)\/?$/
        stripped == IF EndsWith(repoUrl, "/")
                      THEN SubSeq(repoUrl, 1, Len(repoUrl) - 1) ELSE repoUrl
        slash2 == LastIndexOf(stripped, "/")
        last2 == SubSeq(stripped, slash2 + 1, Len(stripped))
    IN IF gitMatch THEN SubSeq(last, 1, Len(last) - 4)
       ELSE IF slash2 > 0 /\ last2 # "" THEN last2
       ELSE "unknown-repo"

RepoNames == [u \in Refs |-> extractRepoName(u)]

\* repoPath = temp/<repoName>; the directories are told apart by the name
RepoPath(u) == RepoNames[u]
Paths == {RepoNames[u] : u \in Refs}

\* IsDemoRequest that knows the sentinel only
IsDemoRequest_sentinelOnly(repoUrl) == repoUrl = "demo"

\* line 65: repoUrl.includes('demo') || repoUrl === 'demo'
IsDemoRequest(repoUrl) == StringIncludes(repoUrl, "demo") \/ repoUrl = "demo"

\* analyzeDemoRepository(), lines 191-284
analyzeDemoRepository ==
  [repository |-> [name |-> "vulnerable-todo-app", url |-> "demo", language |-> "javascript"],
   dependencies |->
     [total |-> 4,
      outdated |->
        <<[name |-> "express", current |-> "4.16.0", latest |-> "4.18.2",
           severity |-> "medium"],
          [name |-> "lodash", current |-> "4.17.4", latest |-> "4.17.21",
           severity |-> "high"]>>,
      vulnerable |->
        <<[name |-> "lodash", version |-> "4.17.4",
           vulnerability |-> "Prototype Pollution (CVE-2019-10744)", severity |-> "high"],
          [name |-> "bcrypt", version |-> "3.0.0",
           vulnerability |-> "Timing Attack Vulnerability", severity |-> "medium"]>>],
   staticAnalysis |->
     [errors |->
        <<Finding("server.js", 15, "Potential SQL injection vulnerability", "error",
                  "security/detect-sql-injection"),
          Finding("server.js", 8, "Hardcoded database credentials", "error",
                  "security/detect-hardcoded-credentials"),
          Finding("utils.js", 14, "Use of eval() is dangerous", "error",
                  "security/detect-eval-with-expression"),
          Finding("server.js", 35, "Synchronous function in async context", "warning",
                  "performance/no-sync-in-async")>>,
      summary |-> [totalFiles |-> 3, totalErrors |-> 3, totalWarnings |-> 1]],
   aiSummary |->
     [riskLevel |-> "high",
      summary |-> "This repository contains several critical security vulnerabilities including SQL injection, hardcoded credentials, and dangerous use of eval(). The outdated dependencies also introduce additional security risks.",
      recommendations |->
        <<"Immediately fix SQL injection vulnerabilities by using parameterized queries",
          "Remove hardcoded database credentials and use environment variables",
          "Replace eval() usage with safer alternatives like JSON.parse()",
          "Update all dependencies to their latest secure versions",
          "Implement input validation and sanitization",
          "Add security headers and CORS protection">>,
      priorityFixes |->
        <<"Fix SQL injection in server.js line 15",
          "Remove hardcoded credentials in server.js line 8",
          "Update lodash to fix prototype pollution vulnerability">>]]

\* what a clone can bring: the trees of the remote repositories
EmptyTree == Tree({}, NoPackageJson, NoRequirements, <<>>)
JsTree ==
  Tree({}, PackageJson(<<[name |-> "lodash", version |-> "4.17.4"]>>, <<>>), NoRequirements,
       <<SourceFile(<<>>, "index.js", TRUE, <<"eval(x)">>)>>)
BadJsonTree ==
  Tree({}, BadPackageJson, NoRequirements, <<SourceFile(<<>>, "index.js", TRUE, <<"f()">>)>>)
BrokenLinkTree ==
  Tree({}, PackageJson(<<>>, <<>>), NoRequirements,
       <<SourceFile(<<"src">>, "link.js", FALSE, <<>>)>>)
Trees == {EmptyTree, JsTree, BadJsonTree, BrokenLinkTree}

\* the analyzers' results for the trees, computed once
LanguageOf == [t \in Trees |-> detectLanguage(t)]
Languages == {LanguageOf[t].value : t \in {x \in Trees : ~LanguageOf[x].threw}}
DependenciesOf == [t \in Trees, l \in Languages |-> analyzeDependencies(t, l)]
StaticAnalysisOf == [t \in Trees, l \in Languages |-> runStaticAnalysis(t, l)]

\* the answers of the LLM endpoint tried in a pipeline run
PipelineOutcomes ==
  {[kind |-> "content", reply |-> [kind |-> "object", obj |-> GoodObject]]}

NoDir == [exists |-> FALSE]
Dir(owner, tree) == [exists |-> TRUE, owner |-> owner, tree |-> tree]

NoSummary == [riskLevel |-> "", summary |-> "", recommendations |-> <<>>,
              priorityFixes |-> <<>>]

NewFrame ==
  [stage |-> "NotStarted", exists |-> FALSE, language |-> "",
   dependencies |-> ZeroDependencies, staticAnalysis |-> ZeroStaticAnalysis,
   aiSummary |-> NoSummary, error |-> "", failedAt |-> "", trace |-> <<>>]

Pending == [threw |-> FALSE, value |-> "pending"]

----------------------------------------------------------------------------
(* The two analyzers applied to repository trees built entry by entry *)

\* package.json entries written to the tree: name and declared range
ManifestEntries ==
  {[name |-> "lodash", version |-> "4.17.4"],
   [name |-> "lodash", version |-> "^4.17.21"],
   [name |-> "react", version |-> "^16.8.0"],
   [name |-> "express", version |-> "~4.16.0"],
   [name |-> "axios", version |-> "2.0.0"],
   [name |-> "left-pad", version |-> "1.0.0"]}

\* lines written to requirements.txt
RequirementLines == {"django==3.2", "# pinned", "flask", " # note", ""}

\* files written to the tree
SourceFiles ==
  {SourceFile(<<"src">>, "db.js", TRUE,
              <<"const query = \"SELECT * FROM t WHERE id = \" + id;">>),
   SourceFile(<<>>, "app.py", TRUE, <<"def f():", "    return eval(x)">>),
   SourceFile(<<"node_modules", "x">>, "index.js", TRUE, <<"eval(x)">>),
   SourceFile(<<>>, "README.md", TRUE, <<"docs">>),
   SourceFile(<<"lib">>, "util.py", TRUE, <<"import os">>),
   SourceFile(<<"coverage">>, "report.js", TRUE, <<"eval(x)">>)}

\* the values detectLanguage returns (analyzer.ts lines 144-160)
AnalyzerLanguages == {"javascript", "python", "java", "rust", "go", "unknown"}

\* the two key lists of a package.json, empty when the file is absent
DeclaredDependencies(tree) ==
  IF tree.packageJson.kind = "json" THEN tree.packageJson.dependencies ELSE <<>>
DeclaredDevDependencies(tree) ==
  IF tree.packageJson.kind = "json" THEN tree.packageJson.devDependencies ELSE <<>>
RequirementsText(tree) ==
  IF tree.requirements.kind = "text" THEN tree.requirements.lines ELSE <<>>

TreeItems(tree) ==
  Len(DeclaredDependencies(tree)) + Len(DeclaredDevDependencies(tree))
  + Len(RequirementsText(tree)) + Len(tree.files)

InitTree ==
  /\ workTree = EmptyTree
  /\ analyzedAs = ""
  /\ depsResult = Pending
  /\ staticResult = Pending
  /\ detected = Pending

\* a key is added to "dependencies" or to "devDependencies" of package.json;
\* the keys of one object are distinct
AddManifestEntry ==
  /\ analyzedAs = ""
  /\ TreeItems(workTree) < MaxTreeItems
  /\ \E e \in ManifestEntries, dev \in BOOLEAN :
       /\ \A i \in 1..Len(IF dev THEN DeclaredDevDependencies(workTree)
                          ELSE DeclaredDependencies(workTree)) :
            (IF dev THEN DeclaredDevDependencies(workTree)
             ELSE DeclaredDependencies(workTree))[i].name # e.name
       /\ workTree' =
            [workTree EXCEPT !.packageJson =
               IF dev
                 THEN PackageJson(DeclaredDependencies(workTree),
                                  Append(DeclaredDevDependencies(workTree), e))
                 ELSE PackageJson(Append(DeclaredDependencies(workTree), e),
                                  DeclaredDevDependencies(workTree))]
  /\ UNCHANGED <<analyzedAs, depsResult, staticResult, detected>>

\* a line is appended to requirements.txt
AddRequirementLine ==
  /\ analyzedAs = ""
  /\ TreeItems(workTree) < MaxTreeItems
  /\ \E line \in RequirementLines :
       workTree' = [workTree EXCEPT !.requirements =
                      Requirements(Append(RequirementsText(workTree), line))]
  /\ UNCHANGED <<analyzedAs, depsResult, staticResult, detected>>

\* a file is added to the tree, at a path not yet taken
AddSourceFile ==
  /\ analyzedAs = ""
  /\ TreeItems(workTree) < MaxTreeItems
  /\ \E f \in SourceFiles :
       /\ \A i \in 1..Len(workTree.files) : workTree.files[i] # f
       /\ workTree' = [workTree EXCEPT !.files = Append(@, f)]
  /\ UNCHANGED <<analyzedAs, depsResult, staticResult, detected>>

\* analyzeDependencies(repoPath, language) and runStaticAnalysis(repoPath,
\* language) are called on the tree
AnalyzeTree ==
  /\ analyzedAs = ""
  /\ \E l \in AnalyzerLanguages :
       /\ analyzedAs' = l
       /\ depsResult' = analyzeDependencies(workTree, l)
       /\ staticResult' = runStaticAnalysis(workTree, l)
  /\ detected' = detectLanguage(workTree)
  /\ UNCHANGED workTree

----------------------------------------------------------------------------
(* services/git.ts and routes/upload.ts: the two ingestion paths *)

\* an entry of a repository: its path segments, whether it is a directory,
\* its size in bytes and its content, a list of characters where "NUL" is
\* the null byte
ArchiveEntry(segments, isDirectory, size, content) ==
  [segments |-> segments, isDirectory |-> isDirectory, size |-> size,
   content |-> content]

TextContent == <<"a", "b", "c", "\n">>
SparseContent == <<"a", "\n", "\n">>
BinaryContent == <<"a", "NUL", "b">>

MaxFileSize == 1048576

EntryCatalogue ==
  {ArchiveEntry(<<"src">>, TRUE, 0, <<>>),
   ArchiveEntry(<<"src", "app.ts">>, FALSE, 4, TextContent),
   ArchiveEntry(<<"packages", "node_modules", "x.js">>, FALSE, 4, TextContent),
   ArchiveEntry(<<"src", "cabinet.ts">>, FALSE, 4, TextContent),
   ArchiveEntry(<<".env">>, FALSE, 4, TextContent),
   ArchiveEntry(<<"src", ".hidden", "x.js">>, FALSE, 4, TextContent),
   ArchiveEntry(<<"docs", "logo.png">>, FALSE, 3, BinaryContent),
   ArchiveEntry(<<"data", "blob.txt">>, FALSE, 3, BinaryContent),
   ArchiveEntry(<<"blank.md">>, FALSE, 3, SparseContent),
   ArchiveEntry(<<"notes.csv">>, FALSE, 4, TextContent),
   ArchiveEntry(<<"edge.md">>, FALSE, MaxFileSize, TextContent),
   ArchiveEntry(<<"big.md">>, FALSE, MaxFileSize + 1, TextContent)}

BaseName(segments) == segments[Len(segments)]

\* git.ts lines 298-318: the patterns /^\.git/ ... /^\./ are anchored at the
\* start of the relative path, /vendor/ /target/ /bin/ /obj/ match anywhere
shouldSkipPath(relativePath) ==
  \/ \E p \in {".git", "node_modules", ".next", "dist", "build", "coverage",
                ".nyc_output", ".cache", ".vscode", ".idea", "."} :
       StartsWith(relativePath, p)
  \/ \E p \in {"vendor", "target", "bin", "obj"} : StringIncludes(relativePath, p)

TextExtensions ==
  {".js", ".jsx", ".ts", ".tsx", ".vue", ".svelte", ".py", ".rb", ".php", ".java",
   ".c", ".cpp", ".cs", ".go", ".rs", ".html", ".css", ".scss", ".sass", ".less",
   ".json", ".xml", ".yaml", ".yml", ".toml", ".md", ".txt", ".rst", ".sql",
   ".graphql", ".gql", ".sh", ".bash", ".zsh", ".fish", ".ps1", ".dockerfile",
   ".dockerignore", ".gitignore", ".gitattributes", ".env", ".env.example",
   "Makefile", "Dockerfile", "README", "LICENSE"}

\* git.ts lines 323-344
isTextFile(segments) ==
  \/ ExtName(BaseName(segments)) \in TextExtensions
  \/ BaseName(segments) \in TextExtensions
  \/ StartsWith(BaseName(segments), ".")

\* the walk reaches an entry if neither it nor a directory above it is skipped
WalkReaches(segments) ==
  \A k \in 1..Len(segments) : ~shouldSkipPath(JoinPath(SubSeq(segments, 1, k)))

CollectedFile(e) ==
  [path |-> JoinPath(e.segments), content |-> e.content, size |-> e.size]

\* git.ts lines 241-293
walkDirectory(entries) ==
  LET kept == SelectSeq(entries, LAMBDA e : /\ ~e.isDirectory
                                            /\ WalkReaches(e.segments)
                                            /\ e.size <= MaxFileSize
                                            /\ isTextFile(e.segments))
  IN [i \in 1..Len(kept) |-> CollectedFile(kept[i])]

\* git.ts lines 45-66: a failure of the walk is rethrown
readRepositoryFiles(entries, readdirFails) ==
  IF readdirFails THEN Thrown("Failed to read repository files")
  ELSE Returned(walkDirectory(entries))

\* git.ts lines 229-236: fs.rm(repoPath, {recursive, force}), errors swallowed
cleanup(clone) == [clone EXCEPT !.exists = FALSE]

SkipExtensions ==
  {".exe", ".dll", ".so", ".dylib", ".jpg", ".jpeg", ".png", ".gif", ".bmp", ".svg",
   ".ico", ".mp3", ".mp4", ".avi", ".mov", ".wmv", ".pdf", ".doc", ".docx", ".xls",
   ".xlsx", ".ppt", ".pptx", ".zip", ".rar", ".7z", ".tar", ".gz", ".class", ".jar",
   ".war", ".ear", ".o", ".obj", ".lib", ".a"}

\* upload.ts lines 290-320: every pattern matches anywhere in the entry name
shouldSkipFile(segments) ==
  \/ \E p \in {"node_modules", ".git", ".next", "dist", "build", "coverage",
                ".nyc_output", ".cache", ".vscode", ".idea", "vendor", "target",
                "bin", "obj"} : StringIncludes(JoinPath(segments), p)
  \/ ExtName(BaseName(segments)) \in SkipExtensions

\* upload.ts lines 325-338; for an empty content the ratio is NaN
isTextContent(content) ==
  /\ \A i \in 1..Len(content) : content[i] # "NUL"
  /\ 10 * Cardinality({i \in 1..Len(content) : content[i] \notin {"\r", "\n", "\t"}})
       > 7 * Len(content)

\* upload.ts lines 58-92: the loop over the entries of the archive
extractZipFiles(entries) ==
  LET kept == SelectSeq(entries, LAMBDA e : /\ ~e.isDirectory
                                            /\ ~StartsWith(JoinPath(e.segments), ".")
                                            /\ ~StringIncludes(JoinPath(e.segments), "/.")
                                            /\ e.size <= MaxFileSize
                                            /\ ~shouldSkipFile(e.segments)
                                            /\ isTextContent(e.content))
  IN [i \in 1..Len(kept) |-> CollectedFile(kept[i])]

\* createTextChunks(content) for a content of one paragraph below the chunk
\* size: one chunk, none for a content of white space
createTextChunks(content) ==
  IF \E i \in 1..Len(content) : content[i] \notin {" ", "\r", "\n", "\t"}
    THEN <<content>> ELSE <<>>

\* the tables the calls of execute insert into, in order
ZipInserts(extracted) ==
  <<"repositories">>
  \o Flatten([i \in 1..Len(extracted) |->
                <<"repo_files">>
                \o [k \in 1..Len(createTextChunks(extracted[i].content)) |->
                      "text_chunks"]])
GithubInserts(collected) ==
  <<"repositories">> \o [i \in 1..Len(collected) |-> "repo_files"]

\* the value of zipFiles and walkFiles before a request has collected files
NotRun == [ran |-> FALSE]

NoRows == [repositories |-> 0, repo_files |-> 0, text_chunks |-> 0]

\* the tables after the inserts before the one that fails (0: none fails)
RowsAfter(before, inserts, failAt) ==
  LET done == IF failAt \in 1..Len(inserts) THEN SubSeq(inserts, 1, failAt - 1)
              ELSE inserts
  IN [t \in DOMAIN before |->
        before[t] + Cardinality({i \in 1..Len(done) : done[i] = t})]

ApiResponse(status, message) == [status |-> status, message |-> message]

InitIngest ==
  /\ archive = <<>>
  /\ zipFiles = NotRun
  /\ walkFiles = NotRun
  /\ repoClone = [made |-> FALSE, exists |-> FALSE]
  /\ rows = NoRows
  /\ zipResponse = Pending
  /\ githubResponse = Pending

\* an entry is added to the repository, at a path not yet taken
AddEntry ==
  /\ zipResponse = Pending /\ githubResponse = Pending
  /\ Len(archive) < MaxEntries
  /\ \E e \in EntryCatalogue :
       /\ \A i \in 1..Len(archive) : archive[i].segments # e.segments
       /\ archive' = Append(archive, e)
  /\ UNCHANGED <<zipFiles, walkFiles, repoClone, rows, zipResponse, githubResponse>>

\* the ways a request can go wrong before its files are stored
ZipRequests == {"ok", "noFile", "unauthenticated", "corruptReported", "corruptOther"}
GithubRequests == {"ok", "noUrl", "unauthenticated", "cloneFails", "readFails"}

\* upload.ts lines 33-174: POST /zip with the archive as the uploaded file;
\* failAt is the call of execute that rejects, 0 for none
PostZip ==
  /\ zipResponse = Pending
  /\ \E request \in ZipRequests, failAt \in 0..(1 + 2 * MaxEntries) :
       LET Rejected(status, message) ==
             /\ zipResponse' = ApiResponse(status, message)
             /\ UNCHANGED <<zipFiles, rows>>
           Store(extracted, inserts) ==
             /\ zipFiles' = Returned(extracted)
             /\ IF Len(extracted) = 0
                  \* line 95 throws inside the try block, line 172 rethrows
                  THEN /\ zipResponse' = ApiResponse(500, "Failed to process ZIP file")
                       /\ UNCHANGED rows
                  ELSE /\ rows' = RowsAfter(rows, inserts, failAt)
                       /\ zipResponse' =
                            IF failAt \in 1..Len(inserts)
                              THEN ApiResponse(500, "Failed to process ZIP file")
                              ELSE ApiResponse(200,
                                     "Repository uploaded successfully with "
                                     \o ToString(Len(extracted)) \o " files")
           Extracted(extracted) == Store(extracted, ZipInserts(extracted))
       IN CASE request = "noFile" -> Rejected(400, "No file uploaded")
            [] request = "unauthenticated" -> Rejected(401, "User authentication required")
            [] request = "corruptReported" -> Rejected(400, "Invalid or corrupted ZIP file")
            [] request = "corruptOther" -> Rejected(500, "Failed to process ZIP file")
            [] request = "ok" -> Extracted(extractZipFiles(archive))
  /\ UNCHANGED <<archive, walkFiles, repoClone, githubResponse>>

\* part_008 lines 120-196: POST /github with the archive as the tree cloned
PostGithub ==
  /\ githubResponse = Pending
  /\ \E request \in GithubRequests, failAt \in 0..(1 + MaxEntries) :
       LET Rejected(status, message) ==
             /\ githubResponse' = ApiResponse(status, message)
             /\ UNCHANGED <<walkFiles, rows, repoClone>>
           Failed(clone) ==
             /\ githubResponse' = ApiResponse(500, "Failed to add repository")
             /\ repoClone' = clone
             /\ UNCHANGED <<walkFiles, rows>>
           Store(collected, inserts) ==
             /\ walkFiles' = Returned(collected)
             /\ rows' = RowsAfter(rows, inserts, failAt)
             /\ IF failAt \in 1..Len(inserts)
                  THEN /\ repoClone' = [made |-> TRUE, exists |-> TRUE]
                       /\ githubResponse' = ApiResponse(500, "Failed to add repository")
                  ELSE /\ repoClone' = cleanup([made |-> TRUE, exists |-> TRUE])
                       /\ githubResponse' =
                            ApiResponse(200, "Repository added successfully")
           Read(files) ==
             IF files.threw THEN Failed([made |-> TRUE, exists |-> TRUE])
             ELSE Store(files.value, GithubInserts(files.value))
       IN CASE request = "noUrl" -> Rejected(400, "Repository URL is required")
            [] request = "unauthenticated" -> Rejected(401, "User authentication required")
            [] request = "cloneFails" ->
                 \E partial \in BOOLEAN : Failed([made |-> FALSE, exists |-> partial])
            [] request \in {"ok", "readFails"} ->
                 Read(readRepositoryFiles(archive, request = "readFails"))
  /\ UNCHANGED <<archive, zipFiles, zipResponse>>

\* gitService.cleanup(repoPath) is called once more
CallCleanup ==
  /\ githubResponse # Pending
  /\ repoClone' = cleanup(repoClone)
  /\ UNCHANGED <<archive, zipFiles, walkFiles, rows, zipResponse, githubResponse>>

InitRuns ==
  /\ fs = [p \in Paths |-> NoDir]
  /\ pc = [r \in Runs |-> "idle"]
  /\ ref = [r \in Runs |-> ""]
  /\ frame = [r \in Runs |-> NewFrame]
  /\ runResult = [r \in Runs |-> Pending]

Init == InitSummary /\ InitRuns /\ InitTree /\ InitIngest

\* the catch block is entered with the error of the given stage
Raise(r, at, error) ==
  /\ pc' = [pc EXCEPT ![r] = "catch"]
  /\ frame' = [frame EXCEPT ![r].error = error, ![r].failedAt = at,
                            ![r].trace = Append(@, at)]

\* analyzeRepository(repoUrl) is called: lines 56-62 up to await fs.ensureDir
Call(r, repoUrl) ==
  /\ pc[r] = "idle"
  /\ \A q \in Runs : q < r => pc[q] # "idle"
  /\ pc' = [pc EXCEPT ![r] = "ensureDir"]
  /\ ref' = [ref EXCEPT ![r] = repoUrl]
  /\ frame' = [frame EXCEPT ![r].stage = "Start"]
  /\ UNCHANGED <<fs, runResult>>


\* EnsureDir with the demo test reduced to repoUrl === 'demo'
EnsureDir_exactDemoOnly(r) ==
  /\ pc[r] = "ensureDir"
  /\ IF ref[r] = "demo"
       THEN /\ pc' = [pc EXCEPT ![r] = "done"]
            /\ runResult' = [runResult EXCEPT ![r] = Returned(analyzeDemoRepository)]
            /\ frame' = [frame EXCEPT ![r].stage = "Done"]
       ELSE /\ pc' = [pc EXCEPT ![r] = "clone:pathExists"]
            /\ UNCHANGED <<runResult, frame>>
  /\ UNCHANGED <<fs, ref>>

\* lines 62-71: the temp directory is there; a demo request is answered
EnsureDir(r) ==
  /\ pc[r] = "ensureDir"
  /\ IF IsDemoRequest(ref[r])
       THEN /\ pc' = [pc EXCEPT ![r] = "done"]
            /\ runResult' = [runResult EXCEPT ![r] = Returned(analyzeDemoRepository)]
            /\ frame' = [frame EXCEPT ![r].stage = "Done"]
       ELSE /\ pc' = [pc EXCEPT ![r] = "clone:pathExists"]
            /\ UNCHANGED <<runResult, frame>>
  /\ UNCHANGED <<fs, ref>>

\* cloneRepository, line 119: await fs.pathExists(targetPath)
ClonePathExists(r) ==
  /\ pc[r] = "clone:pathExists"
  /\ pc' = [pc EXCEPT ![r] = IF fs[RepoPath(ref[r])].exists
                               THEN "clone:remove" ELSE "clone:git"]
  /\ UNCHANGED <<fs, ref, frame, runResult>>

\* cloneRepository, line 120: await fs.remove(targetPath)
CloneRemove(r) ==
  /\ pc[r] = "clone:remove"
  /\ fs' = [fs EXCEPT ![RepoPath(ref[r])] = NoDir]
  /\ pc' = [pc EXCEPT ![r] = "clone:git"]
  /\ UNCHANGED <<ref, frame, runResult>>

\* cloneRepository, line 124: git clone succeeds and brings some tree
GitCloneOk(r) ==
  /\ pc[r] = "clone:git"
  /\ ~fs[RepoPath(ref[r])].exists
  /\ \E t \in Trees : fs' = [fs EXCEPT ![RepoPath(ref[r])] = Dir(r, t)]
  /\ pc' = [pc EXCEPT ![r] = "detectLanguage"]
  /\ frame' = [frame EXCEPT ![r].stage = "Fetched", ![r].trace = Append(@, "clone")]
  /\ UNCHANGED <<ref, runResult>>


\* GitCloneFails with the rejection of git.clone not awaited: the run goes on
GitCloneFails_notAwaited(r) ==
  /\ pc[r] = "clone:git"
  /\ UNCHANGED fs
  /\ pc' = [pc EXCEPT ![r] = "detectLanguage"]
  /\ frame' = [frame EXCEPT ![r].error = "GitError", ![r].failedAt = "clone",
                            ![r].trace = Append(@, "clone")]
  /\ UNCHANGED <<ref, runResult>>

\* cloneRepository, line 124: git clone fails: the target exists already, or
\* the fetch fails and may leave a partial directory behind
GitCloneFails(r) ==
  /\ pc[r] = "clone:git"
  /\ IF fs[RepoPath(ref[r])].exists
       THEN UNCHANGED fs
       ELSE \E partial \in BOOLEAN :
              fs' = [fs EXCEPT ![RepoPath(ref[r])] =
                       IF partial THEN Dir(r, EmptyTree) ELSE NoDir]
  /\ Raise(r, "clone", "GitError")
  /\ UNCHANGED <<ref, runResult>>

\* line 74: detectLanguage(repoPath) reads the directory at repoPath
DetectLanguage(r) ==
  /\ pc[r] = "detectLanguage"
  /\ LET Continue(language) ==
           IF language.threw
             THEN Raise(r, "detectLanguage", language.error)
             ELSE /\ pc' = [pc EXCEPT ![r] = "analyzeDependencies"]
                  /\ frame' = [frame EXCEPT ![r].stage = "LanguageDetected",
                                            ![r].language = language.value,
                                            ![r].trace = Append(@, "detectLanguage")]
         Detect(dir) ==
           Continue(IF dir.exists THEN LanguageOf[dir.tree] ELSE Thrown("ENOENT"))
     IN Detect(fs[RepoPath(ref[r])])
  /\ UNCHANGED <<fs, ref, runResult>>


\* AnalyzeDependencies that hands over to the summarizer, the static analysis
\* left out
AnalyzeDependencies_skipsStatic(r) ==
  /\ pc[r] = "analyzeDependencies"
  /\ LET Continue(deps) ==
           IF deps.threw
             THEN Raise(r, "analyzeDependencies", deps.error)
             ELSE /\ pc' = [pc EXCEPT ![r] = "generateAISummary"]
                  /\ frame' = [frame EXCEPT ![r].stage = "StaticAnalyzed",
                                            ![r].dependencies = deps.value,
                                            ![r].trace = Append(@, "analyzeDependencies")]
         Analyze(dir) ==
           Continue(DependenciesOf[IF dir.exists THEN dir.tree ELSE EmptyTree,
                                   frame[r].language])
     IN Analyze(fs[RepoPath(ref[r])])
  /\ UNCHANGED <<fs, ref, runResult>>

\* line 79: analyzeDependencies(repoPath, language); a missing directory has
\* no manifest
AnalyzeDependencies(r) ==
  /\ pc[r] = "analyzeDependencies"
  /\ LET Continue(deps) ==
           IF deps.threw
             THEN Raise(r, "analyzeDependencies", deps.error)
             ELSE /\ pc' = [pc EXCEPT ![r] = "runStaticAnalysis"]
                  /\ frame' = [frame EXCEPT ![r].stage = "DependenciesAnalyzed",
                                            ![r].dependencies = deps.value,
                                            ![r].trace = Append(@, "analyzeDependencies")]
         Analyze(dir) ==
           Continue(DependenciesOf[IF dir.exists THEN dir.tree ELSE EmptyTree,
                                   frame[r].language])
     IN Analyze(fs[RepoPath(ref[r])])
  /\ UNCHANGED <<fs, ref, runResult>>

\* line 83: runStaticAnalysis(repoPath, language); the walk of a missing
\* directory fails in fs.readdir
RunStaticAnalysis(r) ==
  /\ pc[r] = "runStaticAnalysis"
  /\ LET Continue(static) ==
           IF static.threw
             THEN Raise(r, "runStaticAnalysis", static.error)
             ELSE /\ pc' = [pc EXCEPT ![r] = "generateAISummary"]
                  /\ frame' = [frame EXCEPT ![r].stage = "StaticAnalyzed",
                                            ![r].staticAnalysis = static.value,
                                            ![r].trace = Append(@, "runStaticAnalysis")]
         Analyze(dir) ==
           Continue(IF dir.exists \/ frame[r].language \notin {"javascript", "python"}
                      THEN StaticAnalysisOf[IF dir.exists THEN dir.tree ELSE EmptyTree,
                                            frame[r].language]
                      ELSE Thrown("ENOENT"))
     IN Analyze(fs[RepoPath(ref[r])])
  /\ UNCHANGED <<fs, ref, runResult>>

\* line 87: generateAISummary(dependencies, staticAnalysis)
GenerateAISummary(r) ==
  /\ pc[r] = "generateAISummary"
  /\ \E hasKey \in BOOLEAN, answer \in PipelineOutcomes :
       LET Continue(result, called) ==
             IF result.threw
               THEN /\ pc' = [pc EXCEPT ![r] = "catch"]
                    /\ frame' = [frame EXCEPT ![r].error = result.error,
                                              ![r].failedAt = "generateAISummary",
                                              ![r].trace = @ \o called]
               ELSE /\ pc' = [pc EXCEPT ![r] = "cleanup"]
                    /\ frame' = [frame EXCEPT ![r].stage = "Summarized",
                                              ![r].aiSummary = result.value,
                                              ![r].trace = @ \o called]
           Summarized(ai) ==
             Continue(ai.result,
                      <<"generateAISummary">>
                        \o (IF ai.calls > 0 THEN <<"llm">> ELSE <<>>))
       IN Summarized(generateAISummary(hasKey, answer, frame[r].dependencies,
                                       frame[r].staticAnalysis))
  /\ UNCHANGED <<fs, ref, runResult>>

\* lines 90-101: await fs.remove(repoPath), then the report is returned
CleanupAndReturn(r) ==
  /\ pc[r] = "cleanup"
  /\ fs' = [fs EXCEPT ![RepoPath(ref[r])] = NoDir]
  /\ pc' = [pc EXCEPT ![r] = "done"]
  /\ frame' = [frame EXCEPT ![r].stage = "Done"]
  /\ runResult' = [runResult EXCEPT ![r] =
       Returned([repository |-> [name |-> RepoNames[ref[r]], url |-> ref[r],
                                 language |-> frame[r].language],
                 dependencies |-> frame[r].dependencies,
                 staticAnalysis |-> frame[r].staticAnalysis,
                 aiSummary |-> frame[r].aiSummary])]
  /\ UNCHANGED ref


\* CatchPathExists that rethrows without removing the directory
CatchPathExists_noRemove(r) ==
  /\ pc[r] = "catch"
  /\ pc' = [pc EXCEPT ![r] = "done"]
  /\ frame' = [frame EXCEPT ![r].stage = "Failed"]
  /\ runResult' = [runResult EXCEPT ![r] = Thrown(frame[r].error)]
  /\ UNCHANGED <<fs, ref>>

\* line 105: await fs.pathExists(repoPath) in the catch block; line 108 when
\* there is nothing to remove
CatchPathExists(r) ==
  /\ pc[r] = "catch"
  /\ IF fs[RepoPath(ref[r])].exists
       THEN /\ pc' = [pc EXCEPT ![r] = "catch:remove"]
            /\ UNCHANGED <<frame, runResult>>
       ELSE /\ pc' = [pc EXCEPT ![r] = "done"]
            /\ frame' = [frame EXCEPT ![r].stage = "Failed"]
            /\ runResult' = [runResult EXCEPT ![r] = Thrown(frame[r].error)]
  /\ UNCHANGED <<fs, ref>>

\* lines 106-108: await fs.remove(repoPath); throw error
CatchRemove(r) ==
  /\ pc[r] = "catch:remove"
  /\ fs' = [fs EXCEPT ![RepoPath(ref[r])] = NoDir]
  /\ pc' = [pc EXCEPT ![r] = "done"]
  /\ frame' = [frame EXCEPT ![r].stage = "Failed"]
  /\ runResult' = [runResult EXCEPT ![r] = Thrown(frame[r].error)]
  /\ UNCHANGED ref

Next ==
  \/ \E r \in Runs, u \in Refs : Call(r, u) /\ UNCHANGED <<sumVars, treeVars, ingestVars>>
  \/ \E r \in Runs : EnsureDir(r) /\ UNCHANGED <<sumVars, treeVars, ingestVars>>
  \/ \E r \in Runs : ClonePathExists(r) /\ UNCHANGED <<sumVars, treeVars, ingestVars>>
  \/ \E r \in Runs : CloneRemove(r) /\ UNCHANGED <<sumVars, treeVars, ingestVars>>
  \/ \E r \in Runs : GitCloneOk(r) /\ UNCHANGED <<sumVars, treeVars, ingestVars>>
  \/ \E r \in Runs : GitCloneFails(r) /\ UNCHANGED <<sumVars, treeVars, ingestVars>>
  \/ \E r \in Runs : DetectLanguage(r) /\ UNCHANGED <<sumVars, treeVars, ingestVars>>
  \/ \E r \in Runs : AnalyzeDependencies(r) /\ UNCHANGED <<sumVars, treeVars, ingestVars>>
  \/ \E r \in Runs : RunStaticAnalysis(r) /\ UNCHANGED <<sumVars, treeVars, ingestVars>>
  \/ \E r \in Runs : GenerateAISummary(r) /\ UNCHANGED <<sumVars, treeVars, ingestVars>>
  \/ \E r \in Runs : CleanupAndReturn(r) /\ UNCHANGED <<sumVars, treeVars, ingestVars>>
  \/ \E r \in Runs : CatchPathExists(r) /\ UNCHANGED <<sumVars, treeVars, ingestVars>>
  \/ \E r \in Runs : CatchRemove(r) /\ UNCHANGED <<sumVars, treeVars, ingestVars>>

Spec == Init /\ [][Next]_vars

NextMock ==
  \/ AddVulnerable(MaxItems) /\ UNCHANGED <<runVars, treeVars, ingestVars>>
  \/ AddOutdated(MaxItems) /\ UNCHANGED <<runVars, treeVars, ingestVars>>
  \/ AddFinding(MaxItems) /\ UNCHANGED <<runVars, treeVars, ingestVars>>
  \/ MockSummarize /\ UNCHANGED <<runVars, treeVars, ingestVars>>

NextAI ==
  \/ AddVulnerable(MaxAIItems) /\ UNCHANGED <<runVars, treeVars, ingestVars>>
  \/ AddOutdated(MaxAIItems) /\ UNCHANGED <<runVars, treeVars, ingestVars>>
  \/ AddFinding(MaxAIItems) /\ UNCHANGED <<runVars, treeVars, ingestVars>>
  \/ AISummarize /\ UNCHANGED <<runVars, treeVars, ingestVars>>

SpecMock == Init /\ [][NextMock]_vars
SpecAI == Init /\ [][NextAI]_vars

NextTree ==
  \/ AddManifestEntry /\ UNCHANGED <<sumVars, runVars, ingestVars>>
  \/ AddRequirementLine /\ UNCHANGED <<sumVars, runVars, ingestVars>>
  \/ AddSourceFile /\ UNCHANGED <<sumVars, runVars, ingestVars>>
  \/ AnalyzeTree /\ UNCHANGED <<sumVars, runVars, ingestVars>>

SpecTree == Init /\ [][NextTree]_vars

NextIngest ==
  \/ AddEntry /\ UNCHANGED <<sumVars, runVars, treeVars>>
  \/ PostZip /\ UNCHANGED <<sumVars, runVars, treeVars>>
  \/ PostGithub /\ UNCHANGED <<sumVars, runVars, treeVars>>
  \/ CallCleanup /\ UNCHANGED <<sumVars, runVars, treeVars>>

SpecIngest == Init /\ [][NextIngest]_vars

----------------------------------------------------------------------------
(* Properties of analyzeRepository *)

Started(r) == pc[r] # "idle"
Finished(r) == pc[r] = "done"
NonDemo(r) == Started(r) /\ ~IsDemoRequest(ref[r])
CloneOf(r) == fs[RepoPath(ref[r])]

\* the directory at the run's repoPath holds a clone made by this run
HoldsOwnClone(r) == CloneOf(r).exists /\ CloneOf(r).owner = r

\* C1: once a non-demo run has finished, with a report or with an error of
\* any stage, its clone directory is gone: nothing is at its repoPath at the
\* moment it finishes, and no clone of this run is there afterwards.
C1_CloneDirectoryRemoved ==
  /\ [](\A r \in Runs : Finished(r) /\ NonDemo(r) => ~HoldsOwnClone(r))
  /\ [][\A r \in Runs :
          (pc[r] # "done" /\ pc'[r] = "done" /\ ~IsDemoRequest(ref[r]))
            => ~fs'[RepoPath(ref[r])].exists]_vars

C1_Witness ==
  \E r \in Runs :
    /\ Finished(r)
    /\ frame[r].failedAt = "runStaticAnalysis"
    /\ runResult[r].threw
    /\ ~CloneOf(r).exists

\* C2: the directory a run analyses is its own: while a run stands between
\* its clone and the end of its static analysis, the directory at its
\* repoPath exists and holds the tree this run fetched (no other run has
\* removed or replaced it).
C2_OwnDirectory ==
  \A r \in Runs :
    pc[r] \in {"detectLanguage", "analyzeDependencies", "runStaticAnalysis"}
      => HoldsOwnClone(r)

StageOrder ==
  <<"NotStarted", "Start", "Fetched", "LanguageDetected", "DependenciesAnalyzed",
    "StaticAnalyzed", "Summarized", "Done">>

Follows(a, b) == \E i \in 1..(Len(StageOrder) - 1) : StageOrder[i] = a /\ StageOrder[i + 1] = b

FullTrace ==
  <<"clone", "detectLanguage", "analyzeDependencies", "runStaticAnalysis",
    "generateAISummary">>

\* C3: a non-demo run moves through Start, Fetched, LanguageDetected,
\* DependenciesAnalyzed, StaticAnalyzed, Summarized, Done one stage at a time
\* (or fails), and a report is returned only in the step from Summarized to
\* Done.
C3_StageOrder ==
  [][\A r \in Runs :
       ~IsDemoRequest(ref'[r]) =>
         /\ frame'[r].stage # frame[r].stage =>
              \/ Follows(frame[r].stage, frame'[r].stage)
              \/ /\ frame'[r].stage = "Failed"
                 /\ frame[r].stage \notin {"NotStarted", "Done", "Failed"}
         /\ (pc[r] # "done" /\ pc'[r] = "done" /\ ~runResult'[r].threw) =>
              frame[r].stage = "Summarized" /\ frame'[r].stage = "Done"]_vars

C3_Witness ==
  \E r \in Runs :
    /\ Finished(r) /\ NonDemo(r)
    /\ frame[r].stage = "Done"
    /\ ~runResult[r].threw
    /\ SubSeq(frame[r].trace, 1, 5) = FullTrace

\* C4: a run on a demo reference is in Start or Done only, returns the fixed
\* demo report (vulnerable-todo-app, 4 dependencies) and invokes no clone, no
\* language detection, no analyzer and no LLM call; nothing is created at its
\* repoPath.
C4_DemoShortCircuit ==
  \A r \in Runs :
    Started(r) /\ IsDemoRequest(ref[r]) =>
      /\ frame[r].stage \in {"Start", "Done"}
      /\ frame[r].trace = <<>>
      /\ ~CloneOf(r).exists
      /\ Finished(r) =>
           /\ runResult[r] = Returned(analyzeDemoRepository)
           /\ runResult[r].value.repository.name = "vulnerable-todo-app"
           /\ runResult[r].value.dependencies.total = 4

C4_Witness ==
  \E r \in Runs :
    /\ ref[r] = "git.io/u/demo-app.git"
    /\ Finished(r)
    /\ frame[r].stage = "Done"

\* C5: when the clone of a run fails, the run raises that error, returns no
\* report, and runs none of the later stages.
C5_FetchFailureIsFatal ==
  \A r \in Runs :
    frame[r].failedAt = "clone" =>
      /\ pc[r] \in {"catch", "catch:remove", "done"}
      /\ frame[r].trace = <<"clone">>
      /\ frame[r].stage \in {"Start", "Failed"}
      /\ Finished(r) => runResult[r] = Thrown("GitError")

C5_Witness ==
  \E r \in Runs :
    /\ Finished(r)
    /\ frame[r].failedAt = "clone"
    /\ runResult[r].threw

CompleteReport(report) ==
  /\ DOMAIN report = {"repository", "dependencies", "staticAnalysis", "aiSummary"}
  /\ report.aiSummary.riskLevel # ""

\* C6: a non-demo run whose clone succeeded and that ran alone returns a
\* complete report and does not raise, whatever tree was fetched.
C6_ReportForEveryFetchedTree ==
  \A r \in Runs :
    (/\ Finished(r) /\ NonDemo(r)
     /\ frame[r].failedAt # "clone"
     /\ \A q \in Runs \ {r} : ~Started(q))
      => ~runResult[r].threw /\ CompleteReport(runResult[r].value)

\* the run has fetched a repository without any file and its clone is still
\* in place
FetchedEmpty(r) ==
  /\ Started(r)
  /\ HoldsOwnClone(r)
  /\ CloneOf(r).tree = EmptyTree
  /\ frame[r].failedAt # "clone"

EmptyRepositoryReport(report) ==
  /\ report.staticAnalysis.summary.totalFiles = 0
  /\ report.staticAnalysis.errors = <<>>
  /\ report.dependencies = [total |-> 0, outdated |-> <<>>, vulnerable |-> <<>>]

----------------------------------------------------------------------------
(* Properties of the summarizer *)

Summarized == phase = "summarized"

\* the four counts of the fallback risk level, counted by position
CriticalCount ==
  Cardinality({i \in 1..Len(dependencies.vulnerable) :
                 dependencies.vulnerable[i].severity = "critical"})
HighCount ==
  Cardinality({i \in 1..Len(dependencies.vulnerable) :
                 dependencies.vulnerable[i].severity = "high"})
  + Cardinality({i \in 1..Len(staticAnalysis.errors) :
                   staticAnalysis.errors[i].severity = "error"})
MediumCount ==
  Cardinality({i \in 1..Len(dependencies.outdated) :
                 dependencies.outdated[i].severity = "medium"})
  + Cardinality({i \in 1..Len(staticAnalysis.errors) :
                   staticAnalysis.errors[i].severity = "warning"})

RiskLevels == {"low", "medium", "high", "critical"}
RiskRank(level) ==
  CASE level = "low" -> 0 [] level = "medium" -> 1 [] level = "high" -> 2
    [] level = "critical" -> 3

\* the reply of the last call is one of the failures listed by the claim C7,
\* an empty value being "" for a string field and [] for a list field
FieldMissingOrEmpty(o, f) == o[f] = Undefined \/ o[f] = EmptyValue(f)
ListedFailure(outcome) ==
  \/ outcome.kind \in {"requestError", "timeout", "missingChoices", "emptyChoices"}
  \/ /\ outcome.kind = "content"
     /\ \/ outcome.reply.kind \in {"empty", "prose", "malformed"}
        \/ /\ outcome.reply.kind = "object"
           /\ \E f \in RequiredFields : FieldMissingOrEmpty(outcome.reply.obj, f)

\* the same with "empty value" read as a falsy value: undefined, null or ""
FieldMissingOrFalsy(o, f) == o[f] = Undefined \/ o[f] = Null \/ o[f] = JsString("")
FalsyFailure(outcome) ==
  \/ outcome.kind \in {"requestError", "timeout", "missingChoices", "emptyChoices"}
  \/ /\ outcome.kind = "content"
     /\ \/ outcome.reply.kind \in {"empty", "prose", "malformed"}
        \/ /\ outcome.reply.kind = "object"
           /\ \E f \in RequiredFields : FieldMissingOrFalsy(outcome.reply.obj, f)

\* C7 as stated: generateAISummary never raises, sends no request without a
\* credential, and returns generateMockSummary(dependencies, staticAnalysis)
\* for every listed failure of the LLM call, a field with an empty value
\* ("" or []) included.
C7_FallbackOnEveryListedFailure ==
  Summarized =>
    /\ ~aiResult.threw
    /\ (~credential => llmCalls = 0)
    /\ (~credential \/ ListedFailure(llmOutcome)
          => aiResult = generateMockSummary(dependencies, staticAnalysis))

\* C7 amended: the same, where a field counts as unusable when it is missing,
\* null or the empty string (a falsy value); an empty list is a present field.
C7_FallbackOnEveryFalsyFailure ==
  Summarized =>
    /\ ~aiResult.threw
    /\ (~credential => llmCalls = 0)
    /\ (~credential \/ FalsyFailure(llmOutcome)
          => aiResult = generateMockSummary(dependencies, staticAnalysis))

C7_Witness ==
  /\ Summarized
  /\ credential
  /\ llmCalls = 1
  /\ llmOutcome.kind = "content"
  /\ llmOutcome.reply.kind = "object"
  /\ llmOutcome.reply.obj.summary = JsString("")
  /\ ItemCount > 0
  /\ aiResult = generateMockSummary(dependencies, staticAnalysis)

\* number of entries generatePriorityFixes collects before it truncates
FixCandidates ==
  Cardinality({i \in 1..Len(dependencies.vulnerable) :
                 dependencies.vulnerable[i].severity \in {"critical", "high"}})
  + Cardinality({i \in 1..Len(staticAnalysis.errors) :
                   IsCriticalError(staticAnalysis.errors[i])})
  + Cardinality({i \in 1..Len(dependencies.outdated) :
                   dependencies.outdated[i].severity = "high"})

\* C8: generateMockSummary does not throw and returns a risk level of the
\* enumeration, a summary text, at most 6 recommendations and at most 5
\* priority fixes.
C8_MockSummaryTotal ==
  Summarized =>
    /\ ~aiResult.threw
    /\ aiResult.value.riskLevel \in RiskLevels
    /\ Len(aiResult.value.summary) > 0
    /\ Len(aiResult.value.recommendations) <= 6
    /\ Len(aiResult.value.priorityFixes) <= 5

C8_Witness ==
  /\ Summarized
  /\ FixCandidates = 6
  /\ Len(dependencies.vulnerable) > 0
  /\ Len(dependencies.outdated) > 0
  /\ \E i \in 1..Len(staticAnalysis.errors) : staticAnalysis.errors[i].rule = Undefined
  /\ Len(aiResult.value.priorityFixes) = 5

\* C9: the fallback risk level is critical if C > 0, else high if H > 2, else
\* medium if H > 0 or M > 3, else low, for the counts C, H, M of the input.
C9_RiskLevelFromCounts ==
  Summarized =>
    aiResult.value.riskLevel =
      (IF CriticalCount > 0 THEN "critical"
       ELSE IF HighCount > 2 THEN "high"
       ELSE IF HighCount > 0 \/ MediumCount > 3 THEN "medium"
       ELSE "low")

C9_Witness ==
  /\ Summarized
  /\ CriticalCount = 0
  /\ HighCount = 0
  /\ MediumCount = 4
  /\ aiResult.value.riskLevel = "medium"

MockRiskNow == MockRiskLevel(dependencies, staticAnalysis)

\* one record was added to the input: a vulnerability, an outdated dependency
\* or a finding
OneAdded ==
  \/ /\ \E v \in VulnCatalogue :
          dependencies'.vulnerable = Append(dependencies.vulnerable, v)
     /\ dependencies'.outdated = dependencies.outdated
     /\ staticAnalysis' = staticAnalysis
  \/ /\ \E d \in OutdatedCatalogue :
          dependencies'.outdated = Append(dependencies.outdated, d)
     /\ dependencies'.vulnerable = dependencies.vulnerable
     /\ staticAnalysis' = staticAnalysis
  \/ /\ \E f \in FindingCatalogue :
          staticAnalysis'.errors = Append(staticAnalysis.errors, f)
     /\ dependencies' = dependencies

CriticalAdded ==
  /\ \E v \in VulnCatalogue :
       /\ v.severity = "critical"
       /\ dependencies'.vulnerable = Append(dependencies.vulnerable, v)
  /\ dependencies'.outdated = dependencies.outdated
  /\ staticAnalysis' = staticAnalysis

\* C10: adding a critical vulnerability makes the fallback risk level
\* critical, and adding any record never lowers the fallback risk level.
C10_SeverityMonotone ==
  [][/\ CriticalAdded => MockRiskNow' = "critical"
     /\ OneAdded => RiskRank(MockRiskNow') >= RiskRank(MockRiskNow)]_vars

\* a critical vulnerability was added last to an input whose level was high
C10_Witness ==
  /\ phase = "building"
  /\ Len(dependencies.vulnerable) > 0
  /\ dependencies.vulnerable[Len(dependencies.vulnerable)].severity = "critical"
  /\ MockRiskLevel(
       MakeDependencies(dependencies.outdated,
                        SubSeq(dependencies.vulnerable, 1,
                               Len(dependencies.vulnerable) - 1)),
       staticAnalysis) = "high"
  /\ MockRiskNow = "critical"

----------------------------------------------------------------------------
(* Properties of the two analyzers *)

Analyzed == analyzedAs # ""

\* number of findings of one severity, counted by position
SeverityCount(errors, severity) ==
  Cardinality({i \in 1..Len(errors) : errors[i].severity = severity})

\* C11: in every StaticAnalysisResult returned by runStaticAnalysis,
\* totalErrors is the number of findings of severity error, totalWarnings the
\* number of severity warning, so their sum is at most the number of
\* findings, with equality exactly when no finding has severity info.
C11_StaticSummaryCounts ==
  (Analyzed /\ ~staticResult.threw) =>
    /\ staticResult.value.summary.totalErrors
         = SeverityCount(staticResult.value.errors, "error")
    /\ staticResult.value.summary.totalWarnings
         = SeverityCount(staticResult.value.errors, "warning")
    /\ staticResult.value.summary.totalErrors
         + staticResult.value.summary.totalWarnings
         <= Len(staticResult.value.errors)
    /\ (staticResult.value.summary.totalErrors
          + staticResult.value.summary.totalWarnings
          = Len(staticResult.value.errors))
         <=> SeverityCount(staticResult.value.errors, "info") = 0

\* a Python result with an error finding and an info finding
C11_Witness ==
  /\ analyzedAs = "python"
  /\ ~staticResult.threw
  /\ Len(staticResult.value.errors) = 2
  /\ SeverityCount(staticResult.value.errors, "info") = 1
  /\ staticResult.value.summary.totalErrors = 1
  /\ staticResult.value.summary.totalWarnings = 0

\* the names declared in package.json, in either object
DeclaredNames(tree) ==
  {DeclaredDependencies(tree)[i].name : i \in 1..Len(DeclaredDependencies(tree))}
  \cup {DeclaredDevDependencies(tree)[i].name :
          i \in 1..Len(DeclaredDevDependencies(tree))}

\* C12: for a package.json, total is the number of distinct names declared in
\* dependencies and devDependencies together, and neither outdated nor
\* vulnerable is longer than total.
C12_TotalIsDistinctNames ==
  (/\ analyzedAs = "javascript"
   /\ workTree.packageJson.kind = "json"
   /\ ~depsResult.threw) =>
    /\ depsResult.value.total = Cardinality(DeclaredNames(workTree))
    /\ Len(depsResult.value.outdated) <= depsResult.value.total
    /\ Len(depsResult.value.vulnerable) <= depsResult.value.total

\* lodash is declared in both objects, next to a package of neither table
C12_Witness ==
  /\ analyzedAs = "javascript"
  /\ Len(DeclaredDependencies(workTree)) + Len(DeclaredDevDependencies(workTree)) = 3
  /\ \E i \in 1..Len(DeclaredDependencies(workTree)) :
       DeclaredDependencies(workTree)[i].name = "lodash"
  /\ \E i \in 1..Len(DeclaredDevDependencies(workTree)) :
       DeclaredDevDependencies(workTree)[i].name = "lodash"
  /\ ~depsResult.threw
  /\ depsResult.value.total = 2
  /\ Len(depsResult.value.vulnerable) = 1

\* the manifest {dependencies: {"lodash": "4.17.4"}} was analysed
ScenarioA ==
  /\ analyzedAs = "javascript"
  /\ workTree.packageJson
       = PackageJson(<<[name |-> "lodash", version |-> "4.17.4"]>>, <<>>)

ScenarioAResult(severity) ==
  Returned(
    [total |-> 1,
     outdated |-> <<[name |-> "lodash", current |-> "4.17.4", latest |-> "4.17.21",
                     severity |-> severity]>>,
     vulnerable |-> <<[name |-> "lodash", version |-> "4.17.4",
                       vulnerability |-> "Prototype Pollution (CVE-2019-10744)",
                       severity |-> "high"]>>])

\* C13 as stated: for the manifest {dependencies: {"lodash": "4.17.4"}} the
\* analysis returns total 1, lodash outdated (4.17.4, latest 4.17.21) with
\* severity high, and lodash vulnerable with severity high.
C13_ScenarioA_OutdatedHigh == ScenarioA => depsResult = ScenarioAResult("high")

\* C13 amended: the same result, the outdated entry having severity low
\* (4.17.4 and 4.17.21 differ in the patch number only).
C13_ScenarioA_OutdatedLow == ScenarioA => depsResult = ScenarioAResult("low")

C13_Witness ==
  /\ ScenarioA
  /\ ~depsResult.threw
  /\ Len(depsResult.value.outdated) = 1
  /\ Len(depsResult.value.vulnerable) = 1

\* the JavaScript file whose only line is the query of scenario B
ScenarioBFile ==
  SourceFile(<<"src">>, "db.js", TRUE,
             <<"const query = \"SELECT * FROM t WHERE id = \" + id;">>)

\* the positions of the error findings reported for a file
ErrorFindingsOf(errors, file) ==
  {i \in 1..Len(errors) : errors[i].file = file /\ errors[i].severity = "error"}

\* C14: for the JavaScript file whose only line is
\* const query = "SELECT * FROM t WHERE id = " + id;
\* the analysis reports exactly one finding of severity error, with rule
\* security/detect-sql-injection and line number 1.
C14_ScenarioB_OneSqlInjectionError ==
  (/\ analyzedAs = "javascript"
   /\ \E i \in 1..Len(workTree.files) : workTree.files[i] = ScenarioBFile) =>
    /\ ~staticResult.threw
    /\ Cardinality(ErrorFindingsOf(staticResult.value.errors, "src/db.js")) = 1
    /\ \A i \in ErrorFindingsOf(staticResult.value.errors, "src/db.js") :
         /\ staticResult.value.errors[i].rule
              = JsString("security/detect-sql-injection")
         /\ staticResult.value.errors[i].line = 1

\* the file is the only file of the tree; next to the error the analysis
\* reports the warning of its unused-variable rule
C14_Witness ==
  /\ analyzedAs = "javascript"
  /\ workTree.files = <<ScenarioBFile>>
  /\ ~staticResult.threw
  /\ staticResult.value.summary = [totalFiles |-> 1, totalErrors |-> 1, totalWarnings |-> 1]
  /\ staticResult.value.errors[1].rule = JsString("security/detect-sql-injection")
  /\ staticResult.value.errors[2].rule = JsString("no-unused-vars")

\* C17: for a language other than javascript and python both analyzers
\* return their zero value, and so does analyzeDependencies for a javascript
\* tree without package.json and a python tree without requirements.txt;
\* none of these calls raises.
C17_ZeroValueForUnsupported ==
  Analyzed =>
    /\ analyzedAs \notin {"javascript", "python"} =>
         /\ depsResult = Returned([total |-> 0, outdated |-> <<>>, vulnerable |-> <<>>])
         /\ staticResult =
              Returned([errors |-> <<>>,
                        summary |-> [totalFiles |-> 0, totalErrors |-> 0,
                                     totalWarnings |-> 0]])
    /\ (\/ analyzedAs = "javascript" /\ workTree.packageJson.kind = "absent"
        \/ analyzedAs = "python" /\ workTree.requirements.kind = "absent") =>
         depsResult = Returned([total |-> 0, outdated |-> <<>>, vulnerable |-> <<>>])

\* a tree with a manifest entry and source files, analysed as rust
C17_Witness ==
  /\ analyzedAs = "rust"
  /\ workTree.packageJson.kind = "json"
  /\ Len(workTree.files) = 2
  /\ depsResult = Returned([total |-> 0, outdated |-> <<>>, vulnerable |-> <<>>])
  /\ staticResult.value.summary.totalFiles = 0


----------------------------------------------------------------------------
(* Properties of the summaries returned *)

\* C16: every summary returned by generateAISummary, from the reply of the model
\* or from the fallback, has a riskLevel among low, medium, high and critical,
\* at most 6 recommendations and at most 5 priorityFixes.
C16_AISummaryShape ==
  (Summarized /\ ~aiResult.threw)
    => /\ aiResult.value.riskLevel \in RiskLevels
       /\ Len(aiResult.value.recommendations) <= MaxRecommendations
       /\ Len(aiResult.value.priorityFixes) <= MaxPriorityFixes


\* the entries of one class of priority fixes, in the order of the input:
\* 1 critical vulnerabilities, 2 high vulnerabilities, 3 findings of severity
\* error that mention security in the rule or injection or eval in the
\* message, 4 outdated dependencies of severity high
FixesOfVulnerable(vulnerable, severity) ==
  LET chosen == SelectSeq(vulnerable, LAMBDA v : v.severity = severity)
  IN [i \in 1..Len(chosen) |->
        "Update " \o chosen[i].name \o " to fix: " \o chosen[i].vulnerability]

FixesOfFindings(errors) ==
  LET Mentions(e) ==
        \/ (e.rule.t = "string" /\ Includes(e.rule.v, "security"))
        \/ Includes(toLowerCase(e.message), "injection")
        \/ Includes(toLowerCase(e.message), "eval")
      chosen == SelectSeq(errors, LAMBDA e : e.severity = "error" /\ Mentions(e))
  IN [i \in 1..Len(chosen) |->
        "Fix " \o toLowerCase(chosen[i].message) \o " in " \o chosen[i].file
          \o ":" \o ToString(chosen[i].line)]

FixesOfOutdated(outdated) ==
  LET chosen == SelectSeq(outdated, LAMBDA d : d.severity = "high")
  IN [i \in 1..Len(chosen) |->
        "Update " \o chosen[i].name \o " from " \o chosen[i].current
          \o " to " \o chosen[i].latest]

FixClass(k) ==
  CASE k = 1 -> FixesOfVulnerable(dependencies.vulnerable, "critical")
    [] k = 2 -> FixesOfVulnerable(dependencies.vulnerable, "high")
    [] k = 3 -> FixesOfFindings(staticAnalysis.errors)
    [] k = 4 -> FixesOfOutdated(dependencies.outdated)

\* Returned is the list of the first 5 entries of c1 \o c2 \o c3 \o c4, stated
\* entry by entry: position i holds entry i of the class that covers position i
FirstOfClasses(returned, c1, c2, c3, c4) ==
  /\ Len(returned) =
       IF Len(c1) + Len(c2) + Len(c3) + Len(c4) < 5
         THEN Len(c1) + Len(c2) + Len(c3) + Len(c4) ELSE 5
  /\ \A i \in 1..Len(returned) :
       returned[i] =
         IF i <= Len(c1) THEN c1[i]
         ELSE IF i <= Len(c1) + Len(c2) THEN c2[i - Len(c1)]
         ELSE IF i <= Len(c1) + Len(c2) + Len(c3) THEN c3[i - Len(c1) - Len(c2)]
         ELSE c4[i - Len(c1) - Len(c2) - Len(c3)]

\* C18: the priorityFixes of the fallback summary are the first 5 entries of
\* the critical vulnerabilities, then the high vulnerabilities, then the
\* findings of severity error that mention security, injection or eval, then
\* the outdated dependencies of severity high; so an entry of a later class
\* never precedes one of an earlier class and is returned only if every entry
\* of the earlier classes is.
C18_PriorityFixesOrder ==
  Summarized =>
    FirstOfClasses(aiResult.value.priorityFixes,
                   FixClass(1), FixClass(2), FixClass(3), FixClass(4))

C18_Witness ==
  /\ Summarized
  /\ \A k \in 1..4 : Len(FixClass(k)) > 0
  /\ Len(FixClass(4)) = 2
  /\ FixCandidates = 6
  /\ Len(aiResult.value.priorityFixes) = 5
  /\ aiResult.value.priorityFixes[5] = FixClass(4)[1]


\* the conditions of the recommendation rules, read from the input
SecurityFlagged ==
  \E i \in 1..Len(staticAnalysis.errors) : IsSecurityError(staticAnalysis.errors[i])
PerformanceFlagged ==
  \E i \in 1..Len(staticAnalysis.errors) : IsPerformanceIssue(staticAnalysis.errors[i])
SomeRuleFires ==
  \/ Len(dependencies.vulnerable) > 0
  \/ Len(dependencies.outdated) > 0
  \/ SecurityFlagged
  \/ PerformanceFlagged
  \/ staticAnalysis.summary.totalWarnings > 5

Contains(list, entry) == \E i \in 1..Len(list) : list[i] = entry
AsyncAdvice == "Replace synchronous operations with asynchronous alternatives"

\* the generic advice is returned exactly when no rule fires, and the list is
\* never empty
GenericExactlyWhenNoRule(recommendations) ==
  /\ SomeRuleFires => \A i \in 1..Len(RecGeneric) : ~Contains(recommendations, RecGeneric[i])
  /\ ~SomeRuleFires => recommendations = RecGeneric
  /\ Len(recommendations) > 0

\* C19 as stated: in the fallback summary the recommendations contain the
\* async-conversion advice whenever a finding is performance-flagged; the
\* generic advice is returned exactly when no rule fires, and recommendations
\* is never empty.
C19_AsyncAdviceWheneverFlagged ==
  Summarized =>
    /\ PerformanceFlagged => Contains(aiResult.value.recommendations, AsyncAdvice)
    /\ GenericExactlyWhenNoRule(aiResult.value.recommendations)

\* C19 amended: with a performance-flagged finding the recommendations contain
\* the async-conversion advice unless vulnerable dependencies, outdated
\* dependencies and security-flagged findings are all present: their seven
\* entries come first and the limit of 6 cuts the advice off. The generic
\* advice is returned exactly when no rule fires, and recommendations is never
\* empty.
C19_AsyncAdviceUnlessCutOff ==
  Summarized =>
    /\ PerformanceFlagged =>
         (Contains(aiResult.value.recommendations, AsyncAdvice)
            <=> ~(/\ Len(dependencies.vulnerable) > 0
                  /\ Len(dependencies.outdated) > 0
                  /\ SecurityFlagged))
    /\ GenericExactlyWhenNoRule(aiResult.value.recommendations)

C19_Witness ==
  /\ Summarized
  /\ PerformanceFlagged
  /\ SecurityFlagged
  /\ Len(dependencies.vulnerable) > 0
  /\ Len(dependencies.outdated) = 0
  /\ Len(aiResult.value.recommendations) = 6
  /\ aiResult.value.recommendations[6] = AsyncAdvice


----------------------------------------------------------------------------
(* Properties of the model path *)

\* the summary returned was built from the reply: the model answered with a
\* JSON object and the fallback summary was not returned in its place
Accepted ==
  /\ Summarized
  /\ credential
  /\ llmOutcome.kind = "content"
  /\ llmOutcome.reply.kind = "object"
  /\ aiResult # generateMockSummary(dependencies, staticAnalysis)

ReplyObject == llmOutcome.reply.obj

AllFieldsPresent(o) == \A f \in RequiredFields : o[f] # Undefined /\ o[f] # Null

\* list holds the first n entries of the JSON array x, in the order of x
FirstEntriesOf(list, x, n) ==
  /\ x.t = "array"
  /\ Len(list) = IF Len(x.v) < n THEN Len(x.v) ELSE n
  /\ \A i \in 1..Len(list) : list[i] = x.v[i]

\* C20 as stated: a reply is accepted only if its JSON object has all four
\* fields; the recommendations returned are the first 6 entries of the
\* reply's, the priorityFixes returned the first 5 entries of the reply's, and
\* riskLevel and summary are the reply's values.
C20_AcceptedReplyTruncated ==
  Accepted =>
    /\ AllFieldsPresent(ReplyObject)
    /\ FirstEntriesOf(aiResult.value.recommendations, ReplyObject.recommendations, 6)
    /\ FirstEntriesOf(aiResult.value.priorityFixes, ReplyObject.priorityFixes, 5)
    /\ aiResult.value.riskLevel = ReplyObject.riskLevel.v
    /\ aiResult.value.summary = ReplyObject.summary.v

\* C20 amended: the same, where a recommendations or priorityFixes value of
\* the reply that is present but not a list is returned as the empty list.
C20_AcceptedReplyTruncatedOrEmptied ==
  Accepted =>
    /\ AllFieldsPresent(ReplyObject)
    /\ IF ReplyObject.recommendations.t = "array"
         THEN FirstEntriesOf(aiResult.value.recommendations,
                             ReplyObject.recommendations, 6)
         ELSE aiResult.value.recommendations = <<>>
    /\ IF ReplyObject.priorityFixes.t = "array"
         THEN FirstEntriesOf(aiResult.value.priorityFixes, ReplyObject.priorityFixes, 5)
         ELSE aiResult.value.priorityFixes = <<>>
    /\ aiResult.value.riskLevel = ReplyObject.riskLevel.v
    /\ aiResult.value.summary = ReplyObject.summary.v

C20_Witness ==
  /\ Accepted
  /\ ReplyObject.recommendations = JsString("rotate the keys")
  /\ aiResult.value.recommendations = <<>>
  /\ Len(ReplyObject.priorityFixes.v) = 6
  /\ Len(aiResult.value.priorityFixes) = 5
  /\ ItemCount > 0


----------------------------------------------------------------------------
(* Properties of the classification of JavaScript dependencies *)

\* the version a name is declared with in the merged mapping: that of
\* devDependencies if the name is declared there, else that of dependencies
DeclaredIn(list, name) == \E i \in 1..Len(list) : list[i].name = name
VersionIn(list, name) ==
  list[CHOOSE i \in 1..Len(list) : list[i].name = name].version
DeclaredVersion(tree, name) ==
  IF DeclaredIn(DeclaredDevDependencies(tree), name)
    THEN VersionIn(DeclaredDevDependencies(tree), name)
    ELSE VersionIn(DeclaredDependencies(tree), name)

\* a declared version without its leading ^ or ~
WithoutRangePrefix(version) ==
  IF StartsWith(version, "^") \/ StartsWith(version, "~")
    THEN SubSeq(version, 2, Len(version))
    ELSE version

\* the positions of a name in a result list
PlacesOf(list, name) == {i \in 1..Len(list) : list[i].name = name}

\* the severity the rule gives to a declared version c behind the table's l
SeverityByRule(c, l) ==
  IF c.major # l.major THEN "high"
  ELSE IF c.minor # l.minor THEN "medium"
  ELSE "low"

OutdatedAsRuled(outdated, name, declared, latest) ==
  /\ (PlacesOf(outdated, name) # {})
       <=> SemVerLess(SemVer(declared).value, SemVer(latest).value)
  /\ \A i \in PlacesOf(outdated, name) :
       /\ outdated[i].current = declared
       /\ outdated[i].latest = latest
       /\ outdated[i].severity =
            SeverityByRule(SemVer(declared).value, SemVer(latest).value)

\* C21: in the result for a package.json, a declared name of the
\* latest-version table has an outdated entry exactly if the table's version
\* is greater, in semver precedence, than the declared version without its
\* leading ^ or ~; the entry's severity is high if the majors differ, medium
\* if the majors are equal and the minors differ, low otherwise; a name that
\* is not in the table has no outdated entry.
C21_OutdatedByPrecedence ==
  (analyzedAs = "javascript" /\ ~depsResult.threw) =>
    \A name \in DeclaredNames(workTree) :
      IF name \in DOMAIN mockLatestVersions
        THEN OutdatedAsRuled(depsResult.value.outdated, name,
                             WithoutRangePrefix(DeclaredVersion(workTree, name)),
                             mockLatestVersions[name])
        ELSE PlacesOf(depsResult.value.outdated, name) = {}

\* a package behind in the major, one behind in the minor, one ahead of the
\* table and one of no table
C21_Witness ==
  /\ analyzedAs = "javascript"
  /\ DeclaredNames(workTree) \in {{"react", "express", "axios"},
                                  {"react", "express", "left-pad"}}
  /\ ~depsResult.threw
  /\ Len(depsResult.value.outdated) = 2
  /\ \E i, j \in 1..2 : /\ depsResult.value.outdated[i].severity = "high"
                         /\ depsResult.value.outdated[j].severity = "medium"

----------------------------------------------------------------------------
(* Properties of the Python requirements *)

\* a line of requirements.txt that is neither blank nor a comment and has the
\* form name[operator version]
IsRequirement(line) ==
  /\ Trim(line) # ""
  /\ ~StartsWith(line, "#")
  /\ MatchRequirement(line).matched

RequirementCount(lines) == Cardinality({i \in 1..Len(lines) : IsRequirement(lines[i])})

\* C26: for a requirements.txt, total is the number of lines that were parsed
\* as name[operator version]; blank lines, lines beginning with # and lines
\* that do not match the pattern add nothing to total, outdated or vulnerable.
C26_TotalCountsParsedLines ==
  (analyzedAs = "python" /\ workTree.requirements.kind = "text") =>
    /\ ~depsResult.threw
    /\ depsResult.value.total = RequirementCount(workTree.requirements.lines)
    /\ Len(depsResult.value.outdated) <= RequirementCount(workTree.requirements.lines)
    /\ Len(depsResult.value.vulnerable) <= RequirementCount(workTree.requirements.lines)


----------------------------------------------------------------------------
(* Properties of language detection and file discovery *)

MarkerFiles == {"package.json", "requirements.txt", "setup.py", "Cargo.toml",
                "go.mod", "pom.xml", "build.gradle"}

ExtensionsOf(language) ==
  CASE language = "javascript" -> {".js", ".jsx", ".ts", ".tsx"}
    [] language = "python" -> {".py"}
    [] language = "java" -> {".java"}
    [] language = "rust" -> {".rs"}
    [] language = "go" -> {".go"}
    [] OTHER -> {}

\* the votes of a language: the files of the list with one of its extensions
Votes(files, language) ==
  Cardinality({i \in 1..Len(files) : ExtName(files[i].name) \in ExtensionsOf(language)})

MostVoted(files, language) ==
  /\ \A l \in AnalyzerLanguages : Votes(files, language) >= Votes(files, l)
  /\ (language = "unknown") <=> (\A l \in AnalyzerLanguages : Votes(files, l) = 0)

\* C22: without a marker file in the root, the language detected is one whose
\* extensions are the most numerous among the files of the tree, and it is
\* unknown only when no file has a recognised extension.
C22_MajorityVote ==
  (/\ Analyzed
   /\ RootEntries(workTree) \cap MarkerFiles = {}
   /\ ~detected.threw) =>
    MostVoted(getAllFiles(workTree).value, detected.value)

\* the directories the File Collector leaves out
CollectorSkippedDirs == {"node_modules", ".git", "dist", "build", "coverage",
                         "vendor", "target", "bin", "obj"}

UnderSkippedDir(file) ==
  \E i \in 1..Len(file.dir) :
    file.dir[i] \in CollectorSkippedDirs \/ StartsWith(file.dir[i], ".")

\* the files the discovery may count for a language
Discoverable(tree, language) ==
  {i \in 1..Len(tree.files) :
     /\ ~UnderSkippedDir(tree.files[i])
     /\ ExtName(tree.files[i].name) \in ExtensionsOf(language)}

\* C25: the static analyzer counts and scans only files with the extensions
\* of the language that are not under node_modules, .git, dist, build,
\* coverage, vendor, target, bin, obj or a dot-prefixed directory.
C25_DiscoverySkipsCollectorDirs ==
  (analyzedAs \in {"javascript", "python"} /\ ~staticResult.threw) =>
    /\ staticResult.value.summary.totalFiles
         <= Cardinality(Discoverable(workTree, analyzedAs))
    /\ \A k \in 1..Len(staticResult.value.errors) :
         \E i \in Discoverable(workTree, analyzedAs) :
           staticResult.value.errors[k].file = RelativePath(workTree.files[i])


----------------------------------------------------------------------------
(* Properties of the demo decision *)

ContainsDemo(r) == StringIncludes(ref[r], "demo")

\* how often the run has invoked the clone
CloneCalls(r) ==
  Cardinality({i \in 1..Len(frame[r].trace) : frame[r].trace[i] = "clone"})

\* C28: a run on a reference that contains the substring demo, a real URL
\* included, never invokes the clone and returns the fixed demo report; a run
\* on a reference that does not contain it invokes the clone at most once
\* while it runs and exactly once by the time it has finished.
C28_DemoBySubstring ==
  \A r \in Runs :
    Started(r) =>
      IF ContainsDemo(r)
        THEN /\ CloneCalls(r) = 0
             /\ pc[r] \in {"ensureDir", "done"}
             /\ Finished(r) => runResult[r] = Returned(analyzeDemoRepository)
        ELSE /\ CloneCalls(r) <= 1
             /\ Finished(r) =>
                  /\ CloneCalls(r) = 1
                  /\ runResult[r] # Returned(analyzeDemoRepository)

\* one run on a URL with demo in the repository name, one on a URL without
C28_Witness ==
  \E r, q \in Runs :
    /\ Finished(r) /\ Finished(q)
    /\ ref[r] = "git.io/u/demo-app.git"
    /\ runResult[r] = Returned(analyzeDemoRepository)
    /\ CloneCalls(r) = 0
    /\ ref[q] = "git.io/u/app.git"
    /\ CloneCalls(q) = 1
    /\ ~runResult[q].threw

----------------------------------------------------------------------------
(* Properties of the two ingestion paths *)

\* the entries of the archive that are files
FileEntries == {i \in 1..Len(archive) : ~archive[i].isDirectory}

PathsOf(collected) == {collected[i].path : i \in 1..Len(collected)}

\* a directory above the file is one of the excluded names or starts with a dot
HasSkippedSegment(segments) ==
  \E k \in 1..(Len(segments) - 1) :
    segments[k] \in CollectorSkippedDirs \/ StartsWith(segments[k], ".")

\* C23: the File Collector never emits a file that has a directory segment
\* named node_modules, .git, dist, build, coverage, vendor, target, bin or obj
\* or starting with a dot, at any depth, and it keeps every file below the
\* size cap with a text extension that has no such segment, also when its
\* path contains one of those names inside a longer name
C23_CollectorSkipsBySegment ==
  walkFiles # NotRun =>
    \A i \in FileEntries :
      /\ HasSkippedSegment(archive[i].segments)
           => JoinPath(archive[i].segments) \notin PathsOf(walkFiles.value)
      /\ (/\ ~HasSkippedSegment(archive[i].segments)
          /\ archive[i].size <= MaxFileSize
          /\ ExtName(BaseName(archive[i].segments)) \in TextExtensions)
           => JoinPath(archive[i].segments) \in PathsOf(walkFiles.value)

\* C24: the ZIP path and the cloned-tree path keep the same files of the
\* same repository
C24_SameFilterOnBothPaths ==
  (zipFiles # NotRun /\ walkFiles # NotRun)
    => PathsOf(zipFiles.value) = PathsOf(walkFiles.value)

\* C29: once the add-from-GitHub request has answered, the directory it
\* cloned no longer exists, whether the request succeeded or failed after
\* the clone
C29_CloneReleasedOnEveryPath ==
  (githubResponse # Pending /\ repoClone.made) => ~repoClone.exists

\* C30: an upload whose archive has no qualifying text file is answered with
\* status 400 and 'No valid text files found in ZIP archive', and writes no row
C30_EmptyArchiveReported ==
  zipFiles = Returned(<<>>) =>
    /\ zipResponse = ApiResponse(400, "No valid text files found in ZIP archive")
    /\ githubResponse = Pending => rows = NoRows

====
